---- MODULE Spec2Model ----
(***************************************************************************)
(* Model of the blue/green routing subsystem (release.get_routing_info,    *)
(* get_inactive_color, set_active_color, the Route53 TXT and CloudFront    *)
(* KVS backends, the color_flip script) and of the ECS deploy-with-rollback*)
(* functions (aws.ecs_deploy_v2, aws.ecs_deploy and their helpers).        *)
(*                                                                         *)
(* Text is modelled as a sequence of one-character strings so that         *)
(* splitting, substring tests, str() and JSON parsing are computed and not *)
(* assumed.  A falsy Python value (None or "") is the empty sequence.      *)
(***************************************************************************)
EXTENDS Integers, Sequences, FiniteSets, TLC

(***************************************************************************)
(* Bounds of the model.                                                    *)
(***************************************************************************)
MaxContainers == 2

MaxTime == 31

\* the greatest wait_time a stand-alone call is made with
MaxWaitTime == 35

\* the greatest length of a version string that is written and read back
MaxVersionLen == 2

(***************************************************************************)
(* Program constants.                                                      *)
(***************************************************************************)
WaitTimeV2 == 30

WaitTimeDefault == 10

WaiterMinutes == 10

CacheSeconds == 30

Threshold == 50

FullBlue == 0

FullGreen == 100

VARIABLES
    \* ---- ECS control plane (external state the deploy functions act on)
    svcTaskDef,     \* service -> task definition ARN the service points at
    taskDefs,       \* ARN -> task definition body, for every revision ever registered
    deregistered,   \* set of ARNs that were deregistered
    verParam,       \* service -> value of the VERSION parameter (SSM or secret)
    \* ---- one ecs_deploy_v2 / ecs_deploy invocation per run
    fnOf,           \* run -> "ecs_deploy_v2" | "ecs_deploy"
    svcOf,          \* run -> service (the serviceArn argument)
    cnameOf,        \* run -> containerName argument (<<>> when not given)
    pc,             \* run -> position in the function
    curArn,         \* run -> current_task_definition_arn (0 = not yet read)
    curDef,         \* run -> current_task_definition
    newDef,         \* run -> new_task_definition
    newArn,         \* run -> new_task_definition_arn (0 = none)
    oldVersion,     \* run -> old_version (ecs_deploy)
    attempt,        \* run -> attempt counter of ecs_wait_services_stable
    result,         \* run -> "none" | "True" | "False" | "raised"
    firstWait,      \* run -> outcome of the wait after the deploy
    rbWait,         \* run -> outcome of the wait after the rollback
    \* ---- inputs and output of one ecs_set_new_image_in_task_def call
    imgTaskDef, imgVersion, imgContainerName, imgOut,
    \* ---- routing stores (external state)
    now,            \* the clock, in seconds
    dnsExists,      \* whether the TXT record exists in the hosted zone
    dnsTxt,         \* the string of the TXT record
    kvsValue,       \* the text stored under the KVS key
    kvsEtag,        \* the ETag of the key value store
    \* ---- one Python process per element of Procs
    rpc,            \* process -> position in the running operation
    call,           \* process -> the running operation and its arguments
    info,           \* process -> the local dict `info`
    active_color,   \* process -> the local active_color of get_inactive_color
    inactive_color, \* process -> the local inactive_color of get_inactive_color
    etagHeld,       \* process -> the etag local of cloudfront_update_kvs_key
    cache,          \* process -> the module globals last_* for the record
    ret,            \* process -> how the operation ended
    \* ---- history, read only by the properties
    seen,           \* process -> the record as the operation read it, and the ETag then
    wrote,          \* process -> what set_active_color returned, and the text it sent
    lastCall,       \* process -> the latest get_routing_info call
    \* ---- one run of a deploy script (ecs_deploy.py, ecs_deploy_many.py)
    script,         \* the script that runs
    tagged,         \* what ecr_tag_to_build gave the script
    exitStatus,     \* how the script's process ended
    cancel,         \* the calls of cancel_workflow: <<process, outcome>>
    \* ---- one call of ecs_wait_services_stable on its own
    wait_time,      \* the argument wait_time, in minutes
    waitAttempt,    \* the local `attempt`
    waitResult,     \* "none" while the loop runs, then "True" or "False"
    \* ---- one routing record written and read back
    record,         \* the dict given to set_active_color
    parsed          \* what the reader made of the stored text

ecsVars == <<svcTaskDef, taskDefs, deregistered, verParam, fnOf, svcOf, cnameOf,
             pc, curArn, curDef, newDef, newArn, oldVersion, attempt, result,
             firstWait, rbWait>>

imgVars == <<imgTaskDef, imgVersion, imgContainerName, imgOut>>

routeVars == <<now, dnsExists, dnsTxt, kvsValue, kvsEtag, rpc, call, info,
               active_color, inactive_color, etagHeld, cache, ret, seen, wrote,
               lastCall>>

scriptVars == <<script, tagged, exitStatus, cancel>>

waitVars == <<wait_time, waitAttempt, waitResult>>

tripVars == <<record, parsed>>

vars == <<ecsVars, imgVars, routeVars, scriptVars, waitVars, tripVars>>

\* no record is written and read back
TripIdle ==
    /\ record = <<>>
    /\ parsed = <<>>

\* no stand-alone call of ecs_wait_services_stable
WaitIdle ==
    /\ wait_time = 0
    /\ waitAttempt = 0
    /\ waitResult = "idle"

\* no deploy script runs
ScriptIdle ==
    /\ script = "none"
    /\ tagged = "none"
    /\ exitStatus = "none"
    /\ cancel = {}

\* the routing part when a specification does not exercise it
RouteIdle ==
    /\ now = 0
    /\ dnsExists = FALSE
    /\ dnsTxt = <<>>
    /\ kvsValue = <<>>
    /\ kvsEtag = 0
    /\ rpc = <<>>
    /\ call = <<>>
    /\ info = <<>>
    /\ active_color = <<>>
    /\ inactive_color = <<>>
    /\ etagHeld = <<>>
    /\ cache = <<>>
    /\ ret = <<>>
    /\ seen = <<>>
    /\ wrote = <<>>
    /\ lastCall = <<>>

(***************************************************************************)
(* Text helpers.                                                           *)
(***************************************************************************)
LowerChar(c) ==
    CASE c = "A" -> "a"
      [] c = "P" -> "p"
      [] c = "W" -> "w"
      [] OTHER -> c

\* str.lower()
Lower(s) == [i \in 1..Len(s) |-> LowerChar(s[i])]

\* the Python test `needle in hay` on two strings
Contains(hay, needle) ==
    \E i \in 1..(Len(hay) + 1) :
        /\ i + Len(needle) - 1 <= Len(hay)
        /\ SubSeq(hay, i, i + Len(needle) - 1) = needle

\* str.split(':'): the list of segments between colons
RECURSIVE SplitColon(_)
SplitColon(s) ==
    IF \A i \in 1..Len(s) : s[i] # ":"
    THEN <<s>>
    ELSE LET k == CHOOSE i \in 1..Len(s) :
                      s[i] = ":" /\ \A j \in 1..(i - 1) : s[j] # ":"
         IN <<SubSeq(s, 1, k - 1)>> \o SplitColon(SubSeq(s, k + 1, Len(s)))

(***************************************************************************)
(* ecs_set_new_image_in_task_def: the task definition with the image tags  *)
(* rewritten, or a raised exception.  A task definition is the sequence of *)
(* its containerDefinitions, each [name, image].                           *)
(***************************************************************************)
Raised == [raised |-> TRUE, def |-> <<>>]

Returned(d) == [raised |-> FALSE, def |-> d]

\* a variant that compares containerName with the container's name field
ImageMatchesByContainerField(containerName, container, image) ==
    containerName # <<>> /\ Lower(containerName) = Lower(container.name)

\* the condition of the if statement that decides whether a container is retagged
ImageMatches(containerName, container, image) ==
    containerName # <<>> /\ Contains(Lower(image), Lower(containerName))

\* the loop body for one container: its new image string
NewImage(container, version, containerName) ==
    LET parts == SplitColon(container.image)
    IN IF ImageMatches(containerName, container, parts[1])
       THEN parts[1] \o <<":">> \o version
       ELSE parts[1] \o <<":">> \o parts[2]

\* a container on which the loop body raises: no image, or an image that
\* does not split into exactly two parts
ContainerRaises(container) ==
    \/ container.image = <<>>
    \/ Len(SplitColon(container.image)) # 2

ecs_set_new_image_in_task_def(task_def, version, containerName) ==
    IF task_def = <<>>
    THEN Raised
    ELSE IF \E i \in 1..Len(task_def) : ContainerRaises(task_def[i])
    THEN Raised
    ELSE Returned([i \in 1..Len(task_def) |->
                      [name |-> task_def[i].name,
                       image |-> NewImage(task_def[i], version, containerName)]])

(***************************************************************************)
(* Inputs of the ecs_set_new_image_in_task_def checks.                     *)
(***************************************************************************)
ContainerNames == {<<"a", "p">>, <<"w", "b">>}

\* images: repository:tag, an upper-case repository, an untagged image,
\* a registry with a port (two colons) and a missing image
Images == {<<"a", "p", ":", "1">>,
           <<"w", "b", ":", "1">>,
           <<"A", "P", "w", ":", "1">>,
           <<"w", "b">>,
           <<"h", ":", "5", "a", "p", ":", "1">>,
           <<>>}

ContainerNameArgs == {<<>>, <<"a", "p">>, <<"P", "w">>, <<"x">>}

Tags == {<<"2">>, <<"r", "c">>}

Containers == [name : ContainerNames, image : Images]

TaskDefsUpTo(n) == UNION {[1..k -> Containers] : k \in 0..n}

NotCalled == [called |-> FALSE, raised |-> FALSE, def |-> <<>>]

ImgInit ==
    /\ imgTaskDef \in TaskDefsUpTo(MaxContainers)
    /\ imgVersion \in Tags
    /\ imgContainerName \in ContainerNameArgs
    /\ imgOut = NotCalled

ImgIdle ==
    /\ imgTaskDef = <<>>
    /\ imgVersion = <<>>
    /\ imgContainerName = <<>>
    /\ imgOut = NotCalled

\* one call of ecs_set_new_image_in_task_def on the drawn inputs
SetNewImage ==
    /\ ~imgOut.called
    /\ LET r == ecs_set_new_image_in_task_def(imgTaskDef, imgVersion, imgContainerName)
       IN imgOut' = [called |-> TRUE, raised |-> r.raised, def |-> r.def]
    /\ UNCHANGED <<imgTaskDef, imgVersion, imgContainerName>>
    /\ UNCHANGED <<ecsVars, routeVars, scriptVars, waitVars, tripVars>>

(***************************************************************************)
(* ECS deploy: ecs_deploy_v2 and ecs_deploy.                               *)
(***************************************************************************)
\* the concurrent invocations of the deploy functions
Runs == {"r1", "r2"}

Services == {"s1", "s2"}

\* the ARN of the revision each service runs before any deploy
InitialArn(s) == IF s = "s1" THEN 1 ELSE 2

InitialTaskDef ==
    <<[name |-> <<"a", "p">>, image |-> <<"a", "p", ":", "1">>],
      [name |-> <<"w", "b">>, image |-> <<"w", "b", ":", "1">>]>>

\* the tag argument: both scripts pass f"{_ENV_NAME}_rc"
DeployTag == <<"r", "c">>

InitialVersion == <<"1">>

\* Python's round() of wait_time/10: round half to even
PyRoundTenth(w) ==
    LET q == w \div WaiterMinutes
        r == w % WaiterMinutes
    IN IF 2 * r < WaiterMinutes THEN q
       ELSE IF 2 * r > WaiterMinutes THEN q + 1
       ELSE IF q % 2 = 0 THEN q ELSE q + 1

\* the wait_time each function passes to ecs_wait_services_stable
WaitTime(r) == IF fnOf[r] = "ecs_deploy_v2" THEN WaitTimeV2 ELSE WaitTimeDefault

wait_attempts(r) == PyRoundTenth(WaitTime(r))

EcsInit ==
    /\ svcTaskDef = [s \in Services |-> InitialArn(s)]
    /\ taskDefs = [a \in {InitialArn(s) : s \in Services} |-> InitialTaskDef]
    /\ deregistered = {}
    /\ verParam = [s \in Services |-> InitialVersion]
    /\ fnOf \in [Runs -> {"ecs_deploy_v2", "ecs_deploy"}]
    /\ svcOf \in [Runs -> Services]
    /\ cnameOf \in [Runs -> {<<>>, <<"a", "p">>}]
    /\ \A r \in Runs : fnOf[r] = "ecs_deploy" => cnameOf[r] = <<>>
    /\ pc = [r \in Runs |-> "snapshot"]
    /\ curArn = [r \in Runs |-> 0]
    /\ curDef = [r \in Runs |-> <<>>]
    /\ newDef = [r \in Runs |-> <<>>]
    /\ newArn = [r \in Runs |-> 0]
    /\ oldVersion = [r \in Runs |-> <<>>]
    /\ attempt = [r \in Runs |-> 0]
    /\ result = [r \in Runs |-> "none"]
    /\ firstWait = [r \in Runs |-> "none"]
    /\ rbWait = [r \in Runs |-> "none"]

EcsIdle ==
    /\ svcTaskDef = <<>>
    /\ taskDefs = <<>>
    /\ deregistered = {}
    /\ verParam = <<>>
    /\ fnOf = <<>>
    /\ svcOf = <<>>
    /\ cnameOf = <<>>
    /\ pc = <<>>
    /\ curArn = <<>>
    /\ curDef = <<>>
    /\ newDef = <<>>
    /\ newArn = <<>>
    /\ oldVersion = <<>>
    /\ attempt = <<>>
    /\ result = <<>>
    /\ firstWait = <<>>
    /\ rbWait = <<>>

\* the function ends: by return True, return False or an uncaught exception
Ends(r, how) ==
    /\ pc' = [pc EXCEPT ![r] = "done"]
    /\ result' = [result EXCEPT ![r] = how]

Goes(r, where) ==
    /\ pc' = [pc EXCEPT ![r] = where]
    /\ UNCHANGED result

\* ecs_get_latest_task_definition_arn: describe_services, re-raising its errors
Snapshot(r) ==
    /\ pc[r] = "snapshot"
    /\ \/ /\ curArn' = [curArn EXCEPT ![r] = svcTaskDef[svcOf[r]]]
          /\ Goes(r, "get_def")
       \/ /\ UNCHANGED curArn
          /\ Ends(r, "raised")
    /\ UNCHANGED <<svcTaskDef, taskDefs, deregistered, verParam, fnOf, svcOf, cnameOf,
                   curDef, newDef, newArn, oldVersion, attempt, firstWait, rbWait>>
    /\ UNCHANGED <<imgVars, routeVars, scriptVars, waitVars, tripVars>>

\* ecs_get_task_definition_from_arn: describe_task_definition, re-raising its errors
GetTaskDef(r) ==
    /\ pc[r] = "get_def"
    /\ \/ /\ curDef' = [curDef EXCEPT ![r] = taskDefs[curArn[r]]]
          /\ Goes(r, IF fnOf[r] = "ecs_deploy" THEN "read_version" ELSE "set_image")
       \/ /\ UNCHANGED curDef
          /\ Ends(r, "raised")
    /\ UNCHANGED <<svcTaskDef, taskDefs, deregistered, verParam, fnOf, svcOf, cnameOf,
                   curArn, newDef, newArn, oldVersion, attempt, firstWait, rbWait>>
    /\ UNCHANGED <<imgVars, routeVars, scriptVars, waitVars, tripVars>>

\* ecs_deploy only: read the deployed version from SSM, then from Secrets
\* Manager; raise when neither yields a value
ReadVersion(r) ==
    /\ pc[r] = "read_version"
    /\ \/ /\ oldVersion' = [oldVersion EXCEPT ![r] = verParam[svcOf[r]]]
          /\ Goes(r, "set_image")
       \/ /\ UNCHANGED oldVersion
          /\ Ends(r, "raised")
    /\ UNCHANGED <<svcTaskDef, taskDefs, deregistered, verParam, fnOf, svcOf, cnameOf,
                   curArn, curDef, newDef, newArn, attempt, firstWait, rbWait>>
    /\ UNCHANGED <<imgVars, routeVars, scriptVars, waitVars, tripVars>>

\* new_task_definition = ecs_set_new_image_in_task_def(...)
SetImage(r) ==
    /\ pc[r] = "set_image"
    /\ LET out == ecs_set_new_image_in_task_def(curDef[r], DeployTag, cnameOf[r])
       IN IF out.raised
          THEN UNCHANGED newDef /\ Ends(r, "raised")
          ELSE newDef' = [newDef EXCEPT ![r] = out.def] /\ Goes(r, "register")
    /\ UNCHANGED <<svcTaskDef, taskDefs, deregistered, verParam, fnOf, svcOf, cnameOf,
                   curArn, curDef, newArn, oldVersion, attempt, firstWait, rbWait>>
    /\ UNCHANGED <<imgVars, routeVars, scriptVars, waitVars, tripVars>>

\* a variant that hands out one and the same revision ARN to every caller
NextArnShared == Cardinality(Services) + 1

\* the ARN register_task_definition gives the next revision
NextArn == Cardinality(DOMAIN taskDefs) + 1

\* ecs_register_task_definition_revision: the new ARN, or {} on any error,
\* and then `if not new_task_definition_arn: return False`
Register(r) ==
    /\ pc[r] = "register"
    /\ \/ /\ newArn' = [newArn EXCEPT ![r] = NextArn]
          /\ taskDefs' = [a \in DOMAIN taskDefs \cup {NextArn} |->
                             IF a = NextArn THEN newDef[r] ELSE taskDefs[a]]
          /\ Goes(r, IF fnOf[r] = "ecs_deploy" THEN "put_version" ELSE "deploy")
       \/ /\ UNCHANGED <<newArn, taskDefs>>
          /\ Ends(r, "False")
    /\ UNCHANGED <<svcTaskDef, deregistered, verParam, fnOf, svcOf, cnameOf,
                   curArn, curDef, newDef, oldVersion, attempt, firstWait, rbWait>>
    /\ UNCHANGED <<imgVars, routeVars, scriptVars, waitVars, tripVars>>

\* ecs_deploy only: ssm_put_parameter, else secrets_put_secret_string, else raise
PutVersionParam(r, value, next) ==
    /\ \/ /\ verParam' = [verParam EXCEPT ![svcOf[r]] = value]
          /\ Goes(r, next)
       \/ /\ UNCHANGED verParam
          /\ Ends(r, "raised")
    /\ UNCHANGED <<svcTaskDef, taskDefs, deregistered, fnOf, svcOf, cnameOf,
                   curArn, curDef, newDef, newArn, oldVersion, attempt, firstWait, rbWait>>
    /\ UNCHANGED <<imgVars, routeVars, scriptVars, waitVars, tripVars>>

PutVersion(r) ==
    /\ pc[r] = "put_version"
    /\ PutVersionParam(r, DeployTag, "deploy")

\* a variant of the rollback that writes the new tag again
RollbackVersionKeepsTag(r) ==
    /\ pc[r] = "rb_put_version"
    /\ PutVersionParam(r, DeployTag, "rb_deploy")

RollbackVersion(r) ==
    /\ pc[r] = "rb_put_version"
    /\ PutVersionParam(r, oldVersion[r], "rb_deploy")

\* ecs_deploy_new_task_definition: update_service; an error is logged and
\* turned into a False that neither caller looks at
UpdateService(r, arn, next) ==
    /\ \/ /\ arn \notin deregistered
          /\ svcTaskDef' = [svcTaskDef EXCEPT ![svcOf[r]] = arn]
       \/ UNCHANGED svcTaskDef
    /\ attempt' = [attempt EXCEPT ![r] = 0]
    /\ Goes(r, next)
    /\ UNCHANGED <<taskDefs, deregistered, verParam, fnOf, svcOf, cnameOf,
                   curArn, curDef, newDef, newArn, oldVersion, firstWait, rbWait>>
    /\ UNCHANGED <<imgVars, routeVars, scriptVars, waitVars, tripVars>>

\* a variant that points the service at the new revision before the
\* registration has returned
DeployBeforeRegistered(r) ==
    /\ pc[r] \in {"register", "deploy"}
    /\ UpdateService(r, newArn[r], "wait")

Deploy(r) ==
    /\ pc[r] = "deploy"
    /\ UpdateService(r, newArn[r], "wait")

RollbackDeploy(r) ==
    /\ pc[r] = "rb_deploy"
    /\ UpdateService(r, curArn[r], "rb_wait")

\* one pass of the loop of ecs_wait_services_stable: the waiter returns
\* (stable) or raises; "True"/"False" are the function's return values and
\* "again" is another pass of the loop
WaitOutcome(r, stable) ==
    IF stable THEN "True"
    ELSE IF attempt[r] + 1 >= wait_attempts(r) THEN "False"
    ELSE "again"

\* the wait after the deploy and `if not deploy_status:`; True ends the
\* function with `return True`, False starts the rollback
WaitStable(r) ==
    /\ pc[r] = "wait"
    /\ \E stable \in BOOLEAN :
          LET out == WaitOutcome(r, stable)
          IN CASE out = "True" ->
                    /\ firstWait' = [firstWait EXCEPT ![r] = "ok"]
                    /\ UNCHANGED attempt
                    /\ Ends(r, "True")
               [] out = "False" ->
                    /\ firstWait' = [firstWait EXCEPT ![r] = "failed"]
                    /\ attempt' = [attempt EXCEPT ![r] = attempt[r] + 1]
                    /\ Goes(r, IF fnOf[r] = "ecs_deploy"
                               THEN "rb_put_version" ELSE "rb_deploy")
               [] OTHER ->
                    /\ attempt' = [attempt EXCEPT ![r] = attempt[r] + 1]
                    /\ UNCHANGED firstWait
                    /\ Goes(r, "wait")
    /\ UNCHANGED <<svcTaskDef, taskDefs, deregistered, verParam, fnOf, svcOf, cnameOf,
                   curArn, curDef, newDef, newArn, oldVersion, rbWait>>
    /\ UNCHANGED <<imgVars, routeVars, scriptVars, waitVars, tripVars>>

\* a variant that reports a failed rollback like a failed deploy
RollbackUnstableReturnsFalse(r) == Ends(r, "False")

\* `if not deploy_status: raise Exception("... Rolling back to original task
\* def failed!")` after the rollback wait; no handler encloses it
RollbackUnstable(r) == Ends(r, "raised")

\* the wait after the rollback
RollbackWaitStable(r) ==
    /\ pc[r] = "rb_wait"
    /\ \E stable \in BOOLEAN :
          LET out == WaitOutcome(r, stable)
          IN CASE out = "True" ->
                    /\ rbWait' = [rbWait EXCEPT ![r] = "ok"]
                    /\ UNCHANGED attempt
                    /\ Goes(r, "deregister")
               [] out = "False" ->
                    /\ rbWait' = [rbWait EXCEPT ![r] = "failed"]
                    /\ attempt' = [attempt EXCEPT ![r] = attempt[r] + 1]
                    /\ RollbackUnstable(r)
               [] OTHER ->
                    /\ attempt' = [attempt EXCEPT ![r] = attempt[r] + 1]
                    /\ UNCHANGED rbWait
                    /\ Goes(r, "rb_wait")
    /\ UNCHANGED <<svcTaskDef, taskDefs, deregistered, verParam, fnOf, svcOf, cnameOf,
                   curArn, curDef, newDef, newArn, oldVersion, firstWait>>
    /\ UNCHANGED <<imgVars, routeVars, scriptVars, waitVars, tripVars>>

\* the parameters of ecs_deregister_task_def
DeregisterParams == {"task_def_arn", "session", "region"}

\* the keywords both deploy functions call it with
DeregisterKeywords == {"task_def", "session", "region"}

\* a Python call binds only if every keyword names a parameter; otherwise
\* it raises TypeError before the function body runs
CallBinds(keywords, params) == keywords \subseteq params

\* ecs_deregister_task_def(task_def=new_task_definition_arn, ...) and the
\* `return False` after it.  The body of ecs_deregister_task_def swallows
\* its own errors; its return value is not looked at.
Deregister(r) ==
    /\ pc[r] = "deregister"
    /\ IF CallBinds(DeregisterKeywords, DeregisterParams)
       THEN /\ \/ deregistered' = deregistered \cup {newArn[r]}
               \/ UNCHANGED deregistered
            /\ Ends(r, "False")
       ELSE /\ UNCHANGED deregistered
            /\ Ends(r, "raised")
    /\ UNCHANGED <<svcTaskDef, taskDefs, verParam, fnOf, svcOf, cnameOf,
                   curArn, curDef, newDef, newArn, oldVersion, attempt, firstWait, rbWait>>
    /\ UNCHANGED <<imgVars, routeVars, scriptVars, waitVars, tripVars>>

EcsStep(r) ==
    \/ Snapshot(r)
    \/ GetTaskDef(r)
    \/ ReadVersion(r)
    \/ SetImage(r)
    \/ Register(r)
    \/ PutVersion(r)
    \/ Deploy(r)
    \/ WaitStable(r)
    \/ RollbackVersion(r)
    \/ RollbackDeploy(r)
    \/ RollbackWaitStable(r)
    \/ Deregister(r)

EcsNext == \E r \in Runs : EcsStep(r)

InitEcs == EcsInit /\ ImgIdle /\ RouteIdle /\ ScriptIdle /\ WaitIdle /\ TripIdle

SpecEcs == InitEcs /\ [][EcsNext]_vars

ImgNext == SetNewImage

InitImage == ImgInit /\ EcsIdle /\ RouteIdle /\ ScriptIdle /\ WaitIdle /\ TripIdle

SpecImage == InitImage /\ [][ImgNext]_vars

(***************************************************************************)
(* ecs_wait_services_stable called on its own, for any wait_time.          *)
(***************************************************************************)
\* a variant of the loop test with > for >=
LoopOutcomeStrict(att, attempts, stable) ==
    IF stable THEN "True"
    ELSE IF att + 1 > attempts THEN "False"
    ELSE "again"

\* one pass of `while True:` with `attempt` = att before it: the waiter
\* returns and the loop breaks to `return True`, or it raises, attempt is
\* incremented and `if attempt >= wait_attempts: return False`
LoopOutcome(att, attempts, stable) ==
    IF stable THEN "True"
    ELSE IF att + 1 >= attempts THEN "False"
    ELSE "again"

WaitInit ==
    /\ wait_time \in 0..MaxWaitTime
    /\ waitAttempt = 0
    /\ waitResult = "none"

\* one pass of the loop; the waiter itself gives up after its own bounded
\* polling, so each pass ends
WaitPass ==
    /\ waitResult = "none"
    /\ \E stable \in BOOLEAN :
         \E out \in {LoopOutcome(waitAttempt, PyRoundTenth(wait_time), stable)} :
            /\ waitAttempt' = IF stable THEN waitAttempt ELSE waitAttempt + 1
            /\ waitResult' = IF out = "again" THEN "none" ELSE out
    /\ UNCHANGED wait_time
    /\ UNCHANGED <<ecsVars, imgVars, routeVars, scriptVars, tripVars>>

WaitNext == WaitPass

InitWait == WaitInit /\ EcsIdle /\ ImgIdle /\ RouteIdle /\ ScriptIdle /\ TripIdle

\* the loop runs on: a pass that can be taken is taken
SpecWait == InitWait /\ [][WaitNext]_vars /\ WF_vars(WaitPass)

\* max(1, round(wait_time/10))
MostFailures == IF PyRoundTenth(wait_time) > 1 THEN PyRoundTenth(wait_time) ELSE 1

\* C20: ecs_wait_services_stable terminates for every wait_time >= 0; a
\* pass whose waiter succeeds ends it with True; it returns False after
\* max(1, round(wait_time/10)) failed passes and never makes more
C20_WaitTerminates ==
    /\ <>(waitResult \in {"True", "False"})
    /\ [](/\ waitAttempt <= MostFailures
          /\ waitResult = "none" => waitAttempt < MostFailures
          /\ waitResult = "False" => waitAttempt = MostFailures)
    /\ [][(waitAttempt' = waitAttempt /\ waitResult' # waitResult)
             => waitResult' = "True"]_vars

\* a wait_time that rounds to no attempt at all: one failed pass, False
C20_Witness ==
    /\ PyRoundTenth(wait_time) = 0
    /\ wait_time > 0
    /\ waitAttempt = 1
    /\ waitResult = "False"

(***************************************************************************)
(* Claims about the ECS deploy functions.                                  *)
(***************************************************************************)
Finished(r) == pc[r] = "done"

\* C1: in ecs_deploy_v2, when the wait after the deploy fails and the wait
\* after the rollback succeeds, the service runs the snapshotted ARN, the
\* new revision is deregistered and the call returns False.
C1_RollbackReportsDeployFailed ==
    \A r \in Runs :
        (/\ fnOf[r] = "ecs_deploy_v2"
         /\ Finished(r)
         /\ firstWait[r] = "failed"
         /\ rbWait[r] = "ok")
        => /\ svcTaskDef[svcOf[r]] = curArn[r]
           /\ newArn[r] \in deregistered
           /\ result[r] = "False"

\* C9: in ecs_deploy_v2 and ecs_deploy, when the wait after the rollback
\* fails too, the call ends with the raised error: it returns neither True
\* nor False.
C9_RollbackFailedRaises ==
    \A r \in Runs :
        (Finished(r) /\ rbWait[r] = "failed") => result[r] = "raised"

\* both functions have ended after a failed rollback wait
C9_Witness ==
    \E r1, r2 \in Runs :
        /\ fnOf[r1] = "ecs_deploy_v2" /\ fnOf[r2] = "ecs_deploy"
        /\ Finished(r1) /\ Finished(r2)
        /\ firstWait[r1] = "failed" /\ firstWait[r2] = "failed"
        /\ rbWait[r1] = "failed" /\ rbWait[r2] = "failed"

\* the position of a step in the text of ecs_deploy_v2
StepRank(where) ==
    CASE where = "snapshot" -> 1
      [] where = "get_def" -> 2
      [] where = "set_image" -> 3
      [] where = "register" -> 4
      [] where = "deploy" -> 5
      [] where = "wait" -> 6
      [] where = "rb_deploy" -> 7
      [] where = "rb_wait" -> 8
      [] where = "deregister" -> 9
      [] OTHER -> 10

IsV2(r) == fnOf[r] = "ecs_deploy_v2"

\* the step is one of run r
StepOf(r) == pc'[r] # pc[r] \/ attempt'[r] # attempt[r]

\* C18: a run of ecs_deploy_v2 goes through snapshot, register, service
\* update and wait in that order; it updates the service only with a
\* captured snapshot ARN and a registered new ARN; when the registration
\* fails it returns False at once and leaves the service as it is
C18_DeployStepOrder ==
    [][\A r \in Runs :
         IsV2(r) =>
            /\ pc'[r] # pc[r] => StepRank(pc[r]) < StepRank(pc'[r])
            /\ (StepOf(r) /\ svcTaskDef' # svcTaskDef)
                  => /\ pc[r] \in {"deploy", "rb_deploy"}
                     /\ curArn[r] \in DOMAIN taskDefs
                     /\ newArn[r] \in DOMAIN taskDefs
                     /\ newArn[r] # curArn[r]
            /\ (Register(r) /\ newArn'[r] \notin DOMAIN taskDefs')
                  => /\ pc'[r] = "done"
                     /\ result'[r] = "False"
                     /\ svcTaskDef' = svcTaskDef]_vars

\* one run waits on the revision it registered and deployed, another has
\* returned False from a failed registration
C18_Witness ==
    \E r, q \in Runs :
        /\ IsV2(r) /\ IsV2(q)
        /\ pc[r] = "wait"
        /\ svcTaskDef[svcOf[r]] = newArn[r]
        /\ newArn[r] # curArn[r]
        /\ Finished(q) /\ result[q] = "False" /\ newArn[q] = 0

\* C19: when the first wait of ecs_deploy_v2 has succeeded the call has
\* returned True without a rollback, nothing is deregistered, the
\* snapshotted revision is still registered and the service runs the new
\* revision (for a run that is alone on its service)
C19_SuccessKeepsNewRevision ==
    \A r \in Runs :
        (/\ IsV2(r)
         /\ Finished(r)
         /\ firstWait[r] = "ok"
         /\ \A q \in Runs \ {r} : svcOf[q] # svcOf[r])
        => /\ result[r] = "True"
           /\ rbWait[r] = "none"
           /\ deregistered = {}
           /\ curArn[r] \in DOMAIN taskDefs
           /\ svcTaskDef[svcOf[r]] = newArn[r]

\* no other run targets the service of r
AloneOnService(r) == \A q \in Runs \ {r} : svcOf[q] # svcOf[r]

\* C23: ecs_deploy_v2 returns True only if the service's task definition
\* is then the revision the run registered (for a run alone on its
\* service, so that nobody else moved the service)
C23_TrueOnlyOnNewRevision ==
    \A r \in Runs :
        (IsV2(r) /\ AloneOnService(r) /\ Finished(r) /\ result[r] = "True")
           => svcTaskDef[svcOf[r]] = newArn[r]

\* C26: when a run of ecs_deploy_v2 or ecs_deploy has ended, the revision
\* it registered is the service's task definition or is deregistered (for
\* a run alone on its service)
C26_NoOrphanRevision ==
    \A r \in Runs :
        (AloneOnService(r) /\ Finished(r) /\ newArn[r] # 0)
           => \/ svcTaskDef[svcOf[r]] = newArn[r]
              \/ newArn[r] \in deregistered

\* C27: the rollback step of one run of ecs_deploy_v2 does not take the
\* service off a revision that another run deployed and returned True for
C27_RollbackSparesOtherDeploy ==
    [][\A r, q \in Runs :
         (/\ r # q
          /\ IsV2(r) /\ IsV2(q)
          /\ Finished(r) /\ result[r] = "True"
          /\ svcTaskDef[svcOf[r]] = newArn[r]
          /\ StepOf(q) /\ pc[q] = "rb_deploy")
         => svcTaskDef'[svcOf[r]] = newArn[r]]_vars

IsDeploy(r) == fnOf[r] = "ecs_deploy"

\* C30: in ecs_deploy the version parameter is written only at two places:
\* with the new tag after the revision was registered and before the
\* service update, and with the version read before the deploy after a
\* failed wait and before the service is pointed back; a failed
\* registration ends the run without a write
C30_VersionParamOrder ==
    [][\A r \in Runs :
         (IsDeploy(r) /\ StepOf(r)) =>
            /\ verParam' # verParam => pc[r] \in {"put_version", "rb_put_version"}
            /\ pc'[r] = "put_version"
                  => pc[r] = "register" /\ newArn'[r] \in DOMAIN taskDefs'
            /\ pc'[r] = "deploy"
                  => /\ pc[r] = "put_version"
                     /\ verParam'[svcOf[r]] = DeployTag
                     /\ svcTaskDef' = svcTaskDef
            /\ pc'[r] = "rb_put_version"
                  => pc[r] = "wait" /\ firstWait'[r] = "failed"
            /\ pc'[r] = "rb_deploy"
                  => /\ pc[r] = "rb_put_version"
                     /\ verParam'[svcOf[r]] = oldVersion[r]
                     /\ svcTaskDef' = svcTaskDef
            /\ svcTaskDef' # svcTaskDef => pc[r] \in {"deploy", "rb_deploy"}
            /\ (pc[r] = "register" /\ pc'[r] = "done")
                  => result'[r] = "False" /\ verParam' = verParam]_vars

\* a run of ecs_deploy has set the parameter back and is about to point the
\* service, which runs its new revision, back at the snapshot
C30_Witness ==
    \E r \in Runs :
        /\ IsDeploy(r)
        /\ pc[r] = "rb_deploy"
        /\ oldVersion[r] = InitialVersion
        /\ verParam[svcOf[r]] = oldVersion[r]
        /\ svcTaskDef[svcOf[r]] = newArn[r]

(***************************************************************************)
(* Claims about ecs_set_new_image_in_task_def.                             *)
(***************************************************************************)
Repository(image) == SplitColon(image)[1]

TagOf(image) == SplitColon(image)[2]

ImgReturned == imgOut.called /\ ~imgOut.raised

\* C7: called without a containerName, the function gives every container
\* image the new tag.
C7_NoContainerNameRetagsAll ==
    (ImgReturned /\ imgContainerName = <<>>)
    => \A i \in 1..Len(imgTaskDef) :
           imgOut.def[i].image = Repository(imgTaskDef[i].image) \o <<":">> \o imgVersion

\* C8 as stated: with a containerName, the container whose name is
\* containerName gets repository:new-tag and every other container keeps
\* its image.
C8_MatchByContainerName ==
    (ImgReturned /\ imgContainerName # <<>>)
    => \A i \in 1..Len(imgTaskDef) :
           IF Lower(imgTaskDef[i].name) = Lower(imgContainerName)
           THEN imgOut.def[i].image =
                    Repository(imgTaskDef[i].image) \o <<":">> \o imgVersion
           ELSE imgOut.def[i].image = imgTaskDef[i].image

OneColon(image) == Cardinality({k \in 1..Len(image) : image[k] = ":"}) = 1

\* C8 amended: the call returns exactly when the definition has containers
\* and every image is a string with exactly one colon; then, with a
\* containerName, the containers whose image repository contains
\* containerName (ignoring case) get repository:new-tag, every other
\* container keeps its image string, and names are kept.
C8_MatchByImageRepository ==
    /\ imgOut.called =>
         (imgOut.raised <=>
            \/ Len(imgTaskDef) = 0
            \/ \E i \in 1..Len(imgTaskDef) : ~OneColon(imgTaskDef[i].image))
    /\ (ImgReturned /\ imgContainerName # <<>>) =>
         /\ Len(imgOut.def) = Len(imgTaskDef)
         /\ \A i \in 1..Len(imgTaskDef) :
              /\ imgOut.def[i].name = imgTaskDef[i].name
              /\ IF Contains(Lower(Repository(imgTaskDef[i].image)),
                             Lower(imgContainerName))
                 THEN imgOut.def[i].image =
                          Repository(imgTaskDef[i].image) \o <<":">> \o imgVersion
                 ELSE imgOut.def[i].image = imgTaskDef[i].image

\* a returned call in which a container named otherwise is retagged, the
\* container with that name is not, and the tag really changes
C8_Witness ==
    /\ ImgReturned
    /\ imgContainerName # <<>>
    /\ \E i, j \in 1..Len(imgTaskDef) :
         /\ imgTaskDef[i].name # imgContainerName
         /\ imgOut.def[i].image # imgTaskDef[i].image
         /\ imgTaskDef[j].name = imgContainerName
         /\ imgOut.def[j].image = imgTaskDef[j].image

(***************************************************************************)
(* Routing records as Python holds them and as text.                       *)
(*                                                                         *)
(* A text is a sequence of tokens: the punctuation characters, the digits, *)
(* the characters of version strings, and each key name as one token.      *)
(* White space outside strings is left out (neither int() nor json.loads   *)
(* looks at it).  A dict is the sequence of its items in insertion order;  *)
(* a value is an int or a str.                                             *)
(***************************************************************************)
\* the element of a one-element set: {e(x) : x \in {v}} computes v once
Only(S) == CHOOSE x \in S : TRUE

IntVal(n) == [int |-> TRUE, n |-> n, s |-> <<>>]

StrVal(s) == [int |-> FALSE, n |-> 0, s |-> s]

EmptyDict == <<>>

DictHas(d, k) == \E i \in 1..Len(d) : d[i].k = k

\* d[k]; the caller checks DictHas first (Python raises KeyError otherwise)
DictGet(d, k) == d[CHOOSE i \in 1..Len(d) : d[i].k = k].v

\* d[k] = v: in place when the key exists, appended otherwise
DictSet(d, k, v) ==
    IF DictHas(d, k)
    THEN [i \in 1..Len(d) |-> IF d[i].k = k THEN [k |-> k, v |-> v] ELSE d[i]]
    ELSE Append(d, [k |-> k, v |-> v])

Digits == <<"0", "1", "2", "3", "4", "5", "6", "7", "8", "9">>

IsDigit(c) == \E i \in 1..10 : Digits[i] = c

DigitValue(c) == (CHOOSE i \in 1..10 : Digits[i] = c) - 1

\* str() of a non-negative int
RECURSIVE NatText(_)
NatText(n) ==
    IF n < 10 THEN <<Digits[n + 1]>>
    ELSE NatText(n \div 10) \o <<Digits[(n % 10) + 1]>>

\* str() of an int
IntText(n) == IF n < 0 THEN <<"-">> \o NatText(0 - n) ELSE NatText(n)

\* the value of a run of digits
RECURSIVE DigitsValue(_)
DigitsValue(t) ==
    IF t = <<>> THEN 0
    ELSE 10 * DigitsValue(SubSeq(t, 1, Len(t) - 1)) + DigitValue(t[Len(t)])

AllDigits(t) == t # <<>> /\ \A i \in 1..Len(t) : IsDigit(t[i])

\* int(text): an optional sign and digits, else ValueError (ok = FALSE)
PyInt(t) ==
    IF t # <<>> /\ t[1] \in {"-", "+"} /\ AllDigits(Tail(t))
    THEN [ok |-> TRUE, n |-> IF t[1] = "-" THEN 0 - DigitsValue(Tail(t))
                             ELSE DigitsValue(Tail(t))]
    ELSE IF AllDigits(t)
    THEN [ok |-> TRUE, n |-> DigitsValue(t)]
    ELSE [ok |-> FALSE, n |-> 0]

HasChar(s, c) == \E i \in 1..Len(s) : s[i] = c

\* the body of repr(str) inside single quotes: ' and \ are escaped
RECURSIVE EscapeSingle(_)
EscapeSingle(s) ==
    IF s = <<>> THEN <<>>
    ELSE (IF Head(s) \in {"'", "\\"} THEN <<"\\", Head(s)>> ELSE <<Head(s)>>)
         \o EscapeSingle(Tail(s))

\* the body of repr(str) inside double quotes: only \ is escaped
RECURSIVE EscapeBackslash(_)
EscapeBackslash(s) ==
    IF s = <<>> THEN <<>>
    ELSE (IF Head(s) = "\\" THEN <<"\\", "\\">> ELSE <<Head(s)>>)
         \o EscapeBackslash(Tail(s))

\* repr() of a str: double quotes only when it holds ' and no "
PyRepr(s) ==
    IF HasChar(s, "'") /\ ~HasChar(s, "\"")
    THEN <<"\"">> \o EscapeBackslash(s) \o <<"\"">>
    ELSE <<"'">> \o EscapeSingle(s) \o <<"'">>

ValueText(v) == IF v.int THEN IntText(v.n) ELSE PyRepr(v.s)

RECURSIVE ItemsText(_, _)
ItemsText(d, i) ==
    IF i > Len(d) THEN <<>>
    ELSE PyRepr(d[i].k) \o <<":">> \o ValueText(d[i].v)
         \o (IF i < Len(d) THEN <<",">> ELSE <<>>)
         \o ItemsText(d, i + 1)

\* str(info) of a dict
PyStr(d) == <<"{">> \o ItemsText(d, 1) \o <<"}">>

\* text.replace("'", '"')
ReplaceQuotes(t) == [i \in 1..Len(t) |-> IF t[i] = "'" THEN "\"" ELSE t[i]]

(***************************************************************************)
(* json.loads, for an object whose values are strings and integers.  Each  *)
(* parser returns [ok, .., next]: next is the position after what it read. *)
(***************************************************************************)
JsonFail == [ok |-> FALSE, s |-> <<>>, n |-> 0, d |-> <<>>, next |-> 0]

\* the rest of a string after its opening quote, read from position i; a
\* backslash is an escape only before ", \ or / (the texts of this model
\* hold no control-character escapes)
RECURSIVE JsonStringBody(_, _, _)
JsonStringBody(t, i, acc) ==
    IF i > Len(t) THEN JsonFail
    ELSE IF t[i] = "\"" THEN [JsonFail EXCEPT !.ok = TRUE, !.s = acc, !.next = i + 1]
    ELSE IF t[i] = "\\"
    THEN IF i + 1 <= Len(t) /\ t[i + 1] \in {"\"", "\\", "/"}
         THEN JsonStringBody(t, i + 2, Append(acc, t[i + 1]))
         ELSE JsonFail
    ELSE JsonStringBody(t, i + 1, Append(acc, t[i]))

JsonString(t, i) ==
    IF i <= Len(t) /\ t[i] = "\"" THEN JsonStringBody(t, i + 1, <<>>) ELSE JsonFail

\* the end of the run of digits that starts at i
RECURSIVE DigitsEnd(_, _)
DigitsEnd(t, i) == IF i <= Len(t) /\ IsDigit(t[i]) THEN DigitsEnd(t, i + 1) ELSE i

\* a JSON integer: an optional minus, then 0 or digits without a leading 0
JsonInt(t, i) ==
    LET neg == i <= Len(t) /\ t[i] = "-"
        b == IF neg THEN i + 1 ELSE i
        e == DigitsEnd(t, b)
    IN IF e = b THEN JsonFail
       ELSE IF t[b] = "0" /\ e > b + 1 THEN JsonFail
       ELSE [JsonFail EXCEPT !.ok = TRUE, !.next = e,
                             !.n = IF neg THEN 0 - DigitsValue(SubSeq(t, b, e - 1))
                                   ELSE DigitsValue(SubSeq(t, b, e - 1))]

\* one member read from position i: [ok, k, v, next]
JsonMember(t, i) ==
    Only({IF ~key.ok \/ ~(key.next <= Len(t) /\ t[key.next] = ":")
          THEN [ok |-> FALSE, k |-> <<>>, v |-> IntVal(0), next |-> 0]
          ELSE Only({[ok |-> sv.ok \/ iv.ok, k |-> key.s,
                      v |-> IF sv.ok THEN StrVal(sv.s) ELSE IntVal(iv.n),
                      next |-> IF sv.ok THEN sv.next ELSE iv.next] :
                     sv \in {JsonString(t, key.next + 1)},
                     iv \in {JsonInt(t, key.next + 1)}}) :
          key \in {JsonString(t, i)}})

\* the members of an object from position i up to its closing brace; a key
\* read again replaces the earlier value
RECURSIVE JsonMembers(_, _, _)
JsonMembers(t, i, acc) ==
    Only({IF ~m.ok \/ m.next > Len(t) THEN JsonFail
          ELSE IF t[m.next] = "}"
          THEN [JsonFail EXCEPT !.ok = TRUE, !.next = m.next + 1,
                                !.d = DictSet(acc, m.k, m.v)]
          ELSE IF t[m.next] = ","
          THEN Only({JsonMembers(t, m.next + 1, a) : a \in {DictSet(acc, m.k, m.v)}})
          ELSE JsonFail :
          m \in {JsonMember(t, i)}})

\* json.loads(text) for an object; ok = FALSE is JSONDecodeError
JsonLoads(t) ==
    IF Len(t) >= 2 /\ t[1] = "{"
    THEN IF t[2] = "}"
         THEN IF Len(t) = 2 THEN [JsonFail EXCEPT !.ok = TRUE, !.next = 3]
              ELSE JsonFail
         ELSE Only({IF m.ok /\ m.next = Len(t) + 1 THEN m ELSE JsonFail :
                    m \in {JsonMembers(t, 2, EmptyDict)}})
    ELSE JsonFail

(***************************************************************************)
(* Blue/green routing: the stores, get_routing_info, get_inactive_color,   *)
(* set_active_color and the color_flip script.                             *)
(***************************************************************************)
Procs == {"p1", "p2"}

Weight == <<"weight">>

Blue == <<"blue">>

Green == <<"green">>

Version == <<"version">>

Unknown == <<"unknown">>

None == <<>>

\* a variant with the two weights exchanged
FULL_ROUTING_Exchanged(color) == IF color = Blue THEN FullGreen ELSE FullBlue

\* FULL_ROUTING = { "blue": 0, "green": 100 }
FULL_ROUTING(color) == IF color = Blue THEN FullBlue ELSE FullGreen

\* get_version() in each process: the version of the build it runs in
get_version(p) == IF p = "p1" THEN <<"a">> ELSE <<"b">>

\* a current record with the given weight, both colors at version "o"
RecordText(w) ==
    PyStr(<<[k |-> Weight, v |-> IntVal(w)],
            [k |-> Blue, v |-> StrVal(<<"o">>)],
            [k |-> Green, v |-> StrVal(<<"o">>)]>>)

\* the legacy record {'weight': w, 'version': 'o'}
LegacyText(w) ==
    PyStr(<<[k |-> Weight, v |-> IntVal(w)], [k |-> Version, v |-> StrVal(<<"o">>)]>>)

\* the texts a store may hold before any step: current records fully and
\* partially routed, the legacy weight-only and weight/version forms, a
\* record with a negative weight and a text that does not parse
InitialTexts ==
    {RecordText(w) : w \in {0, 49, 50, 100}}
    \cup {IntText(70), LegacyText(30), RecordText(-1), <<"{", "o">>}

NoCache == [has |-> FALSE, weight |-> IntVal(0), green |-> StrVal(<<>>),
            blue |-> StrVal(<<>>), at |-> 0]

NoCall == [op |-> "none", color |-> None, force |-> FALSE,
           rec |-> FALSE, arn |-> FALSE, key |-> FALSE]

\* how an operation ended: kind is "none" (not ended), "returned", "raised"
\* (an uncaught exception) or "exit" (sys.exit(code)); color is the value
\* get_inactive_color returned; dict is the value get_routing_info returned
NoRet == [kind |-> "none", color |-> None, code |-> 0, dict |-> EmptyDict]

RetRaised == [NoRet EXCEPT !.kind = "raised"]

RetExit(c) == [NoRet EXCEPT !.kind = "exit", !.code = c]

RetColor(c) == [NoRet EXCEPT !.kind = "returned", !.color = c]

RetDict(d) == [NoRet EXCEPT !.kind = "returned", !.dict = d]

NotSeen == [made |-> FALSE, etag |-> 0, dict |-> EmptyDict]

\* res is what set_active_color returned ("none" before it returns), txt the
\* text it was to send, token the IfMatch value of put_key (0 when put_key
\* was not called) and current the ETag of the store at that call
NotWritten == [res |-> "none", txt |-> <<>>, token |-> 0, current |-> 0]

\* made: a call was made, at its time; looked: it called the resolver;
\* fetched: it wrote the cache; hadEntry: the cache held an entry before it
NoCallSeen == [made |-> FALSE, at |-> 0, looked |-> FALSE, fetched |-> FALSE,
               raised |-> FALSE, hadEntry |-> FALSE]

RouteStart ==
    /\ now = 0
    /\ kvsEtag = 1
    /\ rpc = [p \in Procs |-> "idle"]
    /\ call = [p \in Procs |-> NoCall]
    /\ info = [p \in Procs |-> EmptyDict]
    /\ active_color = [p \in Procs |-> None]
    /\ inactive_color = [p \in Procs |-> None]
    /\ etagHeld = [p \in Procs |-> 0]
    /\ cache = [p \in Procs |-> NoCache]
    /\ ret = [p \in Procs |-> NoRet]
    /\ seen = [p \in Procs |-> NotSeen]
    /\ wrote = [p \in Procs |-> NotWritten]
    /\ lastCall = [p \in Procs |-> NoCallSeen]

RouteInit ==
    /\ RouteStart
    /\ dnsExists \in BOOLEAN
    /\ dnsTxt \in InitialTexts
    /\ kvsValue = dnsTxt

(***************************************************************************)
(* get_routing_info.  `answer` is what resolver.resolve gives when it is   *)
(* called: [ok, txt]; ok = FALSE is any resolver exception, txt is         *)
(* txt_records[0].strings[0].                                              *)
(***************************************************************************)
\* the cache test with <= for <
CacheFreshInclusive(c, t) == c.has /\ t - c.at <= CacheSeconds

\* `record_name in last_retrieved and (now - last_retrieved[...]).total_seconds() < 30`
CacheFresh(c, t) == c.has /\ t - c.at < CacheSeconds

\* info with its keys in the order the function sets them
InfoDict(w, g, b) ==
    <<[k |-> Weight, v |-> w], [k |-> Green, v |-> g], [k |-> Blue, v |-> b]>>

\* last_weight, last_green_version, last_blue_version, last_retrieved
CacheOf(w, g, b, t) == [has |-> TRUE, weight |-> w, green |-> g, blue |-> b, at |-> t]

\* the outcome of a call: whether an exception left it, the dict returned,
\* the cache afterwards, whether the resolver was called and whether the
\* cache was written
GriOut(raised, d, c, looked, fetched) ==
    [raised |-> raised, dict |-> d, cache |-> c, looked |-> looked, fetched |-> fetched]

\* the ValueError handler: a JSONDecodeError or KeyError raised inside the
\* handler leaves the function
GriMapping(c, t, txt) ==
    Only({IF ~j.ok \/ ~DictHas(j.d, Weight)
          THEN GriOut(TRUE, EmptyDict, c, TRUE, FALSE)
          ELSE IF DictHas(j.d, Version)
          THEN GriOut(FALSE,
                      InfoDict(DictGet(j.d, Weight), DictGet(j.d, Version),
                               DictGet(j.d, Version)),
                      CacheOf(DictGet(j.d, Weight), DictGet(j.d, Version),
                              DictGet(j.d, Version), t),
                      TRUE, TRUE)
          ELSE IF DictHas(j.d, Green) /\ DictHas(j.d, Blue)
          THEN GriOut(FALSE,
                      InfoDict(DictGet(j.d, Weight), DictGet(j.d, Green),
                               DictGet(j.d, Blue)),
                      CacheOf(DictGet(j.d, Weight), DictGet(j.d, Green),
                              DictGet(j.d, Blue), t),
                      TRUE, TRUE)
          ELSE GriOut(TRUE, EmptyDict, c, TRUE, FALSE) :
          j \in {JsonLoads(ReplaceQuotes(txt))}})

get_routing_info(c, t, answer) ==
    IF CacheFresh(c, t)
    THEN GriOut(FALSE, InfoDict(c.weight, c.green, c.blue), c, FALSE, FALSE)
    ELSE IF ~answer.ok
    THEN GriOut(FALSE, EmptyDict, c, TRUE, FALSE)
    ELSE Only({IF n.ok
               THEN GriOut(FALSE,
                           InfoDict(IntVal(n.n), StrVal(Unknown), StrVal(Unknown)),
                           CacheOf(IntVal(n.n), StrVal(Unknown), StrVal(Unknown), t),
                           TRUE, TRUE)
               ELSE GriMapping(c, t, answer.txt) :
               n \in {PyInt(answer.txt)}})

\* what resolver.resolve(record_name, "TXT") can give: the string of the
\* record, or an exception; only an exception when the record does not
\* exist or record_name is None
Answers(hasName) ==
    {[ok |-> FALSE, txt |-> <<>>]}
    \cup (IF hasName /\ dnsExists THEN {[ok |-> TRUE, txt |-> dnsTxt]} ELSE {})

\* what client.get_key can give: the stored value, or an exception (the only
\* outcome when the key argument is None)
KvsAnswers(hasKey) ==
    {[ok |-> FALSE, txt |-> <<>>]}
    \cup (IF hasKey THEN {[ok |-> TRUE, txt |-> kvsValue]} ELSE {})

\* cloudfront_get_kvs_key: the value, None after any exception
cloudfront_get_kvs_key(answer) == IF answer.ok THEN answer.txt ELSE None

\* the KVS read of color_flip and get_inactive_color up to the first use of
\* info as a dict: None has no startswith (AttributeError), a text that opens
\* with { goes through json.loads, any other text stays a str, on which
\* item access and item assignment raise TypeError
KvsInfo(value) ==
    IF value = None THEN [raised |-> TRUE, dict |-> EmptyDict]
    ELSE IF value[1] = "{"
    THEN Only({[raised |-> ~j.ok, dict |-> j.d] : j \in {JsonLoads(ReplaceQuotes(value))}})
    ELSE [raised |-> TRUE, dict |-> EmptyDict]

\* the read of either backend as one outcome
ReadOut(useKvs, c, t, answer) ==
    IF useKvs
    THEN Only({GriOut(r.raised, r.dict, c, FALSE, FALSE) :
               r \in {KvsInfo(cloudfront_get_kvs_key(answer))}})
    ELSE get_routing_info(c, t, answer)

ReadAnswers(useKvs, hasName, hasKey) ==
    IF useKvs THEN KvsAnswers(hasKey) ELSE Answers(hasName)

\* the record of the latest get_routing_info call of a process
CallSeen(useKvs, old, had, t, out) ==
    IF useKvs THEN old
    ELSE [made |-> TRUE, at |-> t, looked |-> out.looked, fetched |-> out.fetched,
          raised |-> out.raised, hadEntry |-> had]

(***************************************************************************)
(* set_active_color and the two writers.                                   *)
(***************************************************************************)
\* set_active_color: record_name first, else kvs_arn and kvs_key, else False
Backend(rec, arn, key) == IF rec THEN "dns" ELSE IF arn /\ key THEN "kvs" ELSE "none"

\* the arguments get_inactive_color passes on: the KVS pair alone when both
\* are set, record_name alone otherwise
ForcedBackend(rec, arn, key) ==
    IF arn /\ key THEN Backend(FALSE, arn, key) ELSE Backend(rec, FALSE, FALSE)

\* the forced write of get_inactive_color reported as done whatever
\* set_active_color returned
ForcedResultIgnoresFailure(ok, inactive) == inactive

\* get_inactive_color after the forced write: None when set_active_color
\* returned False, inactive_color otherwise
ForcedResult(ok, inactive) == IF ok THEN inactive ELSE None

\* cloudfront_update_kvs_key returning True whatever put_key did
UpdateResultIgnoresRejection(accepted) == TRUE

\* cloudfront_update_kvs_key: False when put_key raised, True otherwise
UpdateResult(accepted) == accepted

\* set_active_color returned `ok` to process p, having sent `txt`
WriteEnds(p, ok, txt, token) ==
    /\ wrote' = [wrote EXCEPT ![p] = [res |-> IF ok THEN "ok" ELSE "failed", txt |-> txt,
                                      token |-> token, current |-> kvsEtag]]
    /\ rpc' = [rpc EXCEPT ![p] = "done"]
    /\ ret' = [ret EXCEPT ![p] =
                 IF call[p].op = "color_flip"
                 THEN RetExit(IF ok THEN 0 ELSE 1)
                 ELSE RetColor(ForcedResult(ok, inactive_color[p]))]

\* set_active_color(info=d) entered by process p with the backend chosen
WriteBegins(p, backend) ==
    IF backend = "none"
    THEN WriteEnds(p, FALSE, <<>>, 0)
    ELSE /\ rpc' = [rpc EXCEPT ![p] = IF backend = "dns" THEN "r53_zone" ELSE "kvs_describe"]
         /\ UNCHANGED <<ret, wrote>>

\* route53_list_hosted_zones_by_name: without a hosted zone id the update
\* returns False
R53Zone(p) ==
    /\ rpc[p] = "r53_zone"
    /\ \E found \in BOOLEAN :
         IF found
         THEN /\ rpc' = [rpc EXCEPT ![p] = "r53_check"]
              /\ UNCHANGED <<ret, wrote>>
         ELSE WriteEnds(p, FALSE, PyStr(info[p]), 0)
    /\ UNCHANGED <<now, dnsExists, dnsTxt, kvsValue, kvsEtag, call, info, active_color,
                   inactive_color, etagHeld, cache, seen, lastCall>>
    /\ UNCHANGED <<ecsVars, imgVars, scriptVars, waitVars, tripVars>>

\* the update going on to the UPSERT without looking for the record
RecordNotChecked(answers, exists) == answers

\* the update goes on to the UPSERT when the record has a TTL (it exists)
\* and the API calls answer
RecordChecked(answers, exists) == answers /\ exists

\* route53_update_txt_record from the hosted zone to the UPSERT: the TTL of
\* the record is read and test_dns_answer is called; else False
R53Check(p) ==
    /\ rpc[p] = "r53_check"
    /\ \E ok \in BOOLEAN :
         IF RecordChecked(ok, dnsExists)
         THEN /\ rpc' = [rpc EXCEPT ![p] = "r53_upsert"]
              /\ UNCHANGED <<ret, wrote>>
         ELSE WriteEnds(p, FALSE, PyStr(info[p]), 0)
    /\ UNCHANGED <<now, dnsExists, dnsTxt, kvsValue, kvsEtag, call, info, active_color,
                   inactive_color, etagHeld, cache, seen, lastCall>>
    /\ UNCHANGED <<ecsVars, imgVars, scriptVars, waitVars, tripVars>>

\* the Value sent is '"' + txt + '"'
TxtValue(txt) == <<"\"">> \o txt \o <<"\"">>

\* a record whose string keeps the quotes of the Value
TxtStringWithQuotes(value) == value

\* the string a TXT record with that Value holds: the text between the quotes
TxtString(value) == SubSeq(value, 2, Len(value) - 1)

\* change_resource_record_sets with Action UPSERT
R53Upsert(p) ==
    /\ rpc[p] = "r53_upsert"
    /\ \E ok \in BOOLEAN :
         /\ IF ok
            THEN /\ dnsTxt' = TxtString(TxtValue(PyStr(info[p])))
                 /\ dnsExists' = TRUE
            ELSE UNCHANGED <<dnsTxt, dnsExists>>
         /\ WriteEnds(p, ok, PyStr(info[p]), 0)
    /\ UNCHANGED <<now, kvsValue, kvsEtag, call, info, active_color, inactive_color,
                   etagHeld, cache, seen, lastCall>>
    /\ UNCHANGED <<ecsVars, imgVars, scriptVars, waitVars, tripVars>>

\* cloudfront_get_kvs_etag inside cloudfront_update_kvs_key: the ETag now, or
\* None after an exception, on which the update returns False
KvsDescribe(p) ==
    /\ rpc[p] = "kvs_describe"
    /\ \E ok \in BOOLEAN :
         IF ok
         THEN /\ etagHeld' = [etagHeld EXCEPT ![p] = kvsEtag]
              /\ rpc' = [rpc EXCEPT ![p] = "kvs_put"]
              /\ UNCHANGED <<ret, wrote>>
         ELSE /\ WriteEnds(p, FALSE, PyStr(info[p]), 0)
              /\ UNCHANGED etagHeld
    /\ UNCHANGED <<now, dnsExists, dnsTxt, kvsValue, kvsEtag, call, info, active_color,
                   inactive_color, cache, seen, lastCall>>
    /\ UNCHANGED <<ecsVars, imgVars, scriptVars, waitVars, tripVars>>

\* put_key(IfMatch=etag): the store takes the value when the call gets
\* through and the ETag is the current one, and then has a new ETag
KvsPut(p) ==
    /\ rpc[p] = "kvs_put"
    /\ \E through \in BOOLEAN :
         LET accepted == through /\ etagHeld[p] = kvsEtag
         IN /\ IF accepted
               THEN /\ kvsValue' = PyStr(info[p])
                    /\ kvsEtag' = kvsEtag + 1
               ELSE UNCHANGED <<kvsValue, kvsEtag>>
            /\ WriteEnds(p, UpdateResult(accepted), PyStr(info[p]), etagHeld[p])
    /\ UNCHANGED <<now, dnsExists, dnsTxt, call, info, active_color, inactive_color,
                   etagHeld, cache, seen, lastCall>>
    /\ UNCHANGED <<ecsVars, imgVars, scriptVars, waitVars, tripVars>>

(***************************************************************************)
(* color_flip.py                                                           *)
(***************************************************************************)
\* which of RECORD_NAME, KVS_ARN and KVS_KEY are set: none, the DNS
\* backend, the KVS backend, both backends, and KVS_ARN without KVS_KEY
Environments ==
    {[rec |-> FALSE, arn |-> FALSE, key |-> FALSE],
     [rec |-> TRUE, arn |-> FALSE, key |-> FALSE],
     [rec |-> FALSE, arn |-> TRUE, key |-> TRUE],
     [rec |-> TRUE, arn |-> TRUE, key |-> TRUE],
     [rec |-> FALSE, arn |-> TRUE, key |-> FALSE]}

\* the values of COLOR: unset, blue, green
FlipColors == {None, Blue, Green}

\* lines 26-36: the environment is read; exit 1 without COLOR or without
\* any of RECORD_NAME, KVS_ARN, KVS_KEY
FlipStart(p) ==
    /\ rpc[p] = "idle"
    /\ \E color \in FlipColors, env \in Environments :
         /\ call' = [call EXCEPT ![p] = [op |-> "color_flip", color |-> color,
                                         force |-> FALSE, rec |-> env.rec,
                                         arn |-> env.arn, key |-> env.key]]
         /\ IF color = None \/ (~env.rec /\ ~env.arn /\ ~env.key)
            THEN /\ rpc' = [rpc EXCEPT ![p] = "done"]
                 /\ ret' = [ret EXCEPT ![p] = RetExit(1)]
            ELSE /\ rpc' = [rpc EXCEPT ![p] = "flip_read"]
                 /\ UNCHANGED ret
    /\ UNCHANGED <<now, dnsExists, dnsTxt, kvsValue, kvsEtag, info, active_color,
                   inactive_color, etagHeld, cache, seen, wrote, lastCall>>
    /\ UNCHANGED <<ecsVars, imgVars, scriptVars, waitVars, tripVars>>

\* lines 52-53: info[_COLOR] = get_version(); info['weight'] = FULL_ROUTING[_COLOR]
FlipInfo(d, color, version) ==
    DictSet(DictSet(d, color, StrVal(version)), Weight, IntVal(FULL_ROUTING(color)))

\* lines 45-55: the read (from the KVS whenever KVS_ARN is set), the change
\* of info, and the entry into set_active_color
FlipRead(p) ==
    /\ rpc[p] = "flip_read"
    /\ \E answer \in ReadAnswers(call[p].arn, call[p].rec, call[p].key) :
         \E out \in {ReadOut(call[p].arn, cache[p], now, answer)} :
            /\ cache' = [cache EXCEPT ![p] = out.cache]
            /\ lastCall' = [lastCall EXCEPT ![p] = CallSeen(call[p].arn, @, cache[p].has, now, out)]
            /\ IF out.raised
               THEN /\ rpc' = [rpc EXCEPT ![p] = "done"]
                    /\ ret' = [ret EXCEPT ![p] = RetRaised]
                    /\ UNCHANGED <<info, seen, wrote>>
               ELSE /\ seen' = [seen EXCEPT ![p] = [made |-> TRUE, etag |-> kvsEtag,
                                                    dict |-> out.dict]]
                    /\ info' = [info EXCEPT ![p] =
                                  FlipInfo(out.dict, call[p].color, get_version(p))]
                    /\ WriteBegins(p, Backend(call[p].rec, call[p].arn, call[p].key))
    /\ UNCHANGED <<now, dnsExists, dnsTxt, kvsValue, kvsEtag, call, active_color,
                   inactive_color, etagHeld>>
    /\ UNCHANGED <<ecsVars, imgVars, scriptVars, waitVars, tripVars>>

(***************************************************************************)
(* get_inactive_color                                                      *)
(***************************************************************************)
GicStart(p) ==
    /\ rpc[p] = "idle"
    /\ \E env \in Environments, force \in BOOLEAN :
         call' = [call EXCEPT ![p] = [op |-> "get_inactive_color", color |-> None,
                                      force |-> force, rec |-> env.rec,
                                      arn |-> env.arn, key |-> env.key]]
    /\ rpc' = [rpc EXCEPT ![p] = "gic_read"]
    /\ UNCHANGED <<now, dnsExists, dnsTxt, kvsValue, kvsEtag, info, active_color,
                   inactive_color, etagHeld, cache, ret, seen, wrote, lastCall>>
    /\ UNCHANGED <<ecsVars, imgVars, scriptVars, waitVars, tripVars>>

\* the threshold test with <= for <
ActiveOfInclusive(w) == IF w <= Threshold THEN Blue ELSE Green

\* lines 527-532: blue below 50, green from 50 on
ActiveOf(w) == IF w < Threshold THEN Blue ELSE Green

InactiveOf(w) == IF ActiveOf(w) = Blue THEN Green ELSE Blue

\* a variant that forces whatever the weight is
ForcesAnyWeight(force, w) == force

\* `force_routing and weight != 0 and weight != 100`
Forces(force, w) == force /\ w # 0 /\ w # 100

\* lines 508-550 up to the entry into set_active_color
GicRead(p) ==
    /\ rpc[p] = "gic_read"
    /\ \E answer \in ReadAnswers(call[p].arn /\ call[p].key, call[p].rec, call[p].key) :
         \E out \in {ReadOut(call[p].arn /\ call[p].key, cache[p], now, answer)} :
         LET known == ~out.raised /\ DictHas(out.dict, Weight)
                      /\ DictGet(out.dict, Weight).int
             w == DictGet(out.dict, Weight).n
         IN /\ cache' = [cache EXCEPT ![p] = out.cache]
            /\ lastCall' = [lastCall EXCEPT ![p] =
                              CallSeen(call[p].arn /\ call[p].key, @, cache[p].has, now, out)]
            /\ IF ~known
               THEN /\ rpc' = [rpc EXCEPT ![p] = "done"]
                    /\ ret' = [ret EXCEPT ![p] = RetRaised]
                    /\ UNCHANGED <<info, seen, wrote, active_color, inactive_color>>
               ELSE /\ seen' = [seen EXCEPT ![p] = [made |-> TRUE, etag |-> kvsEtag,
                                                    dict |-> out.dict]]
                    /\ IF w < 0
                       THEN /\ rpc' = [rpc EXCEPT ![p] = "done"]
                            /\ ret' = [ret EXCEPT ![p] = RetColor(None)]
                            /\ info' = [info EXCEPT ![p] = out.dict]
                            /\ UNCHANGED <<wrote, active_color, inactive_color>>
                       ELSE /\ active_color' = [active_color EXCEPT ![p] = ActiveOf(w)]
                            /\ inactive_color' = [inactive_color EXCEPT ![p] = InactiveOf(w)]
                            /\ IF Forces(call[p].force, w)
                               THEN /\ info' = [info EXCEPT ![p] =
                                                  FlipInfo(out.dict, ActiveOf(w), get_version(p))]
                                    /\ WriteBegins(p, ForcedBackend(call[p].rec, call[p].arn,
                                                                    call[p].key))
                               ELSE /\ info' = [info EXCEPT ![p] = out.dict]
                                    /\ rpc' = [rpc EXCEPT ![p] = "done"]
                                    /\ ret' = [ret EXCEPT ![p] = RetColor(InactiveOf(w))]
                                    /\ UNCHANGED wrote
    /\ UNCHANGED <<now, dnsExists, dnsTxt, kvsValue, kvsEtag, call, etagHeld>>
    /\ UNCHANGED <<ecsVars, imgVars, scriptVars, waitVars, tripVars>>

\* the caller of get_inactive_color goes on in the same process and calls
\* get_routing_info for the record name it passed
RoutingInfoAfter(p) ==
    /\ rpc[p] = "done"
    /\ call[p].op = "get_inactive_color"
    /\ call[p].rec
    /\ ret[p].kind = "returned"
    /\ \E answer \in Answers(TRUE) :
         \E out \in {get_routing_info(cache[p], now, answer)} :
            /\ cache' = [cache EXCEPT ![p] = out.cache]
            /\ lastCall' = [lastCall EXCEPT ![p] = CallSeen(FALSE, @, cache[p].has, now, out)]
    /\ rpc' = [rpc EXCEPT ![p] = "after"]
    /\ UNCHANGED <<now, dnsExists, dnsTxt, kvsValue, kvsEtag, call, info, active_color,
                   inactive_color, etagHeld, ret, seen, wrote>>
    /\ UNCHANGED <<ecsVars, imgVars, scriptVars, waitVars, tripVars>>

RouteNext ==
    \E p \in Procs :
        \/ FlipStart(p)
        \/ FlipRead(p)
        \/ GicStart(p)
        \/ GicRead(p)
        \/ R53Zone(p)
        \/ R53Check(p)
        \/ R53Upsert(p)
        \/ KvsDescribe(p)
        \/ KvsPut(p)
        \/ RoutingInfoAfter(p)

InitRoute == RouteInit /\ EcsIdle /\ ImgIdle /\ ScriptIdle /\ WaitIdle /\ TripIdle

SpecRoute == InitRoute /\ [][RouteNext]_vars

(***************************************************************************)
(* One process that calls get_routing_info again and again while the clock *)
(* runs and other writers change the record.                               *)
(***************************************************************************)
Pollers == {"p1"}

\* the strings the record holds in turn: a current record, a legacy weight
\* and a text that does not parse
PolledTexts == {RecordText(50), IntText(70), <<"{", "o">>}

CacheInit ==
    /\ RouteStart
    /\ dnsExists = TRUE
    /\ dnsTxt \in PolledTexts
    /\ kvsValue = dnsTxt

CallRoutingInfo(p) ==
    /\ rpc[p] = "idle"
    /\ \E answer \in Answers(TRUE) :
         \E out \in {get_routing_info(cache[p], now, answer)} :
            /\ cache' = [cache EXCEPT ![p] = out.cache]
            /\ lastCall' = [lastCall EXCEPT ![p] = CallSeen(FALSE, @, cache[p].has, now, out)]
            /\ ret' = [ret EXCEPT ![p] = IF out.raised THEN RetRaised ELSE RetDict(out.dict)]
    /\ call' = [call EXCEPT ![p] = [NoCall EXCEPT !.op = "get_routing_info", !.rec = TRUE]]
    /\ UNCHANGED <<now, dnsExists, dnsTxt, kvsValue, kvsEtag, rpc, info, active_color,
                   inactive_color, etagHeld, seen, wrote>>
    /\ UNCHANGED <<ecsVars, imgVars, scriptVars, waitVars, tripVars>>

\* a second passes
Tick ==
    /\ now < MaxTime
    /\ now' = now + 1
    /\ UNCHANGED <<dnsExists, dnsTxt, kvsValue, kvsEtag, rpc, call, info, active_color,
                   inactive_color, etagHeld, cache, ret, seen, wrote, lastCall>>
    /\ UNCHANGED <<ecsVars, imgVars, scriptVars, waitVars, tripVars>>

\* another writer replaces the string of the record
DnsChanged ==
    /\ \E txt \in PolledTexts \ {dnsTxt} : dnsTxt' = txt
    /\ UNCHANGED <<now, dnsExists, kvsValue, kvsEtag, rpc, call, info, active_color,
                   inactive_color, etagHeld, cache, ret, seen, wrote, lastCall>>
    /\ UNCHANGED <<ecsVars, imgVars, scriptVars, waitVars, tripVars>>

CacheNext ==
    \/ \E p \in Pollers : CallRoutingInfo(p)
    \/ Tick
    \/ DnsChanged

InitCache == CacheInit /\ EcsIdle /\ ImgIdle /\ ScriptIdle /\ WaitIdle /\ TripIdle

SpecCache == InitCache /\ [][CacheNext]_vars

\* the weight the operation of p read, when it read an int
WeightSeen(p) == DictGet(seen[p].dict, Weight).n

(***************************************************************************)
(* A routing record written by set_active_color (str(info)) and read back  *)
(* by a reader (replace("'", '"'), json.loads).                            *)
(***************************************************************************)
\* the characters version strings are drawn from: a letter, both quotes
\* and the backslash
VersionChars == {"a", "'", "\"", "\\"}

VersionStrings == UNION {[1..n -> VersionChars] : n \in 0..MaxVersionLen}

TripWeights == {0, 7, 75, 100}

TripInit ==
    /\ \E w \in TripWeights, g \in VersionStrings, b \in VersionStrings :
          record = InfoDict(IntVal(w), StrVal(g), StrVal(b))
    /\ parsed = [done |-> FALSE, raised |-> FALSE, dict |-> EmptyDict]

\* set_active_color sends str(info); the KVS reader of get_inactive_color
\* and color_flip parses the stored text
RoundTrip ==
    /\ ~parsed.done
    /\ \E out \in {KvsInfo(PyStr(record))} :
          parsed' = [done |-> TRUE, raised |-> out.raised, dict |-> out.dict]
    /\ UNCHANGED record
    /\ UNCHANGED <<ecsVars, imgVars, routeVars, scriptVars, waitVars>>

TripNext == RoundTrip

InitTrip == TripInit /\ EcsIdle /\ ImgIdle /\ RouteIdle /\ ScriptIdle /\ WaitIdle

SpecTrip == InitTrip /\ [][TripNext]_vars

\* the two dicts hold the same keys with the same values
SameDict(d, e) ==
    /\ \A i \in 1..Len(d) : DictHas(e, d[i].k) /\ DictGet(e, d[i].k) = d[i].v
    /\ \A i \in 1..Len(e) : DictHas(d, e[i].k)

\* C22: a record {weight, green, blue} written as str(record) and read back
\* with the quote replacement and json.loads is the record again, for
\* every weight and every pair of version strings
C22_RoundTrip ==
    parsed.done => ~parsed.raised /\ SameDict(parsed.dict, record)

(***************************************************************************)
(* The scripts color_flip.py, ecs_deploy.py and ecs_deploy_many.py as       *)
(* processes with an exit status.  color_flip is the operation of that     *)
(* name of the routing part; the deploy scripts run ecs_deploy_v2 in the   *)
(* runs of Workers and then tag the image.                                 *)
(***************************************************************************)
DeployScripts == {"ecs_deploy", "ecs_deploy_many"}

RoutingScripts == {"color_flip", "color_check"}

\* color_check.py lines 26-36: the environment is read; exit 1 without
\* COLOR or without any of RECORD_NAME, KVS_ARN, KVS_KEY; line 41 enters
\* get_inactive_color without force_routing
CheckStart(p) ==
    /\ rpc[p] = "idle"
    /\ \E color \in FlipColors, env \in Environments :
         /\ call' = [call EXCEPT ![p] = [op |-> "color_check", color |-> color,
                                         force |-> FALSE, rec |-> env.rec,
                                         arn |-> env.arn, key |-> env.key]]
         /\ IF color = None \/ (~env.rec /\ ~env.arn /\ ~env.key)
            THEN /\ rpc' = [rpc EXCEPT ![p] = "exited"]
                 /\ ret' = [ret EXCEPT ![p] = RetExit(1)]
            ELSE /\ rpc' = [rpc EXCEPT ![p] = "gic_read"]
                 /\ UNCHANGED ret
    /\ UNCHANGED <<now, dnsExists, dnsTxt, kvsValue, kvsEtag, info, active_color,
                   inactive_color, etagHeld, cache, seen, wrote, lastCall>>
    /\ UNCHANGED <<ecsVars, imgVars, scriptVars, waitVars, tripVars>>

\* Python's `a in b` on two strings: a is a slice of b
PyIn(a, b) ==
    \/ a = <<>>
    \/ \E i \in 1..(Len(b) - Len(a) + 1) : SubSeq(b, i, i + Len(a) - 1) = a

\* cancel_workflow: True on status 202, False on another status or without
\* CIRCLE_WORKFLOW_ID / PIPELINE_TRIGGER_TOKEN; requests.post may raise
CancelOutcomes == {"True", "False", "raised"}

\* a variant that goes on to sys.exit(0) whatever cancel_workflow returned
CancelExitIgnoresFailure(outcome) == RetExit(0)

\* lines 45-58: `if not cancel_workflow(): sys.exit(1)`, else the sleep and
\* sys.exit(0)
CancelExit(outcome) ==
    IF outcome = "True" THEN RetExit(0)
    ELSE IF outcome = "False" THEN RetExit(1)
    ELSE RetRaised

\* lines 43-58, after get_inactive_color returned; `_COLOR in None` raises
\* TypeError
ColorCheck(p) ==
    /\ rpc[p] = "done"
    /\ call[p].op = "color_check"
    /\ ret[p].kind = "returned"
    /\ rpc' = [rpc EXCEPT ![p] = "exited"]
    /\ IF ret[p].color = None
       THEN /\ ret' = [ret EXCEPT ![p] = RetRaised]
            /\ UNCHANGED cancel
       ELSE IF PyIn(call[p].color, ret[p].color)
       THEN /\ ret' = [ret EXCEPT ![p] = RetExit(0)]
            /\ UNCHANGED cancel
       ELSE \E outcome \in CancelOutcomes :
               /\ cancel' = cancel \cup {<<p, outcome>>}
               /\ ret' = [ret EXCEPT ![p] = CancelExit(outcome)]
    /\ UNCHANGED <<now, dnsExists, dnsTxt, kvsValue, kvsEtag, call, info, active_color,
                   inactive_color, etagHeld, cache, seen, wrote, lastCall>>
    /\ UNCHANGED <<script, tagged, exitStatus>>
    /\ UNCHANGED <<ecsVars, imgVars, waitVars, tripVars>>

\* ecs_deploy.py makes one call; ecs_deploy_many.py one pool worker per
\* element of service_arns
Workers == IF script = "ecs_deploy_many" THEN Runs ELSE {"r1"}

ScriptsInit ==
    /\ script \in DeployScripts \cup RoutingScripts
    /\ tagged = "none"
    /\ exitStatus = "none"
    /\ cancel = {}
    /\ ImgIdle
    /\ WaitIdle
    /\ TripIdle
    /\ IF script \in RoutingScripts
       THEN RouteInit /\ EcsIdle
       ELSE /\ RouteIdle
            /\ EcsInit
            /\ \A r \in Runs : fnOf[r] = "ecs_deploy_v2" /\ cnameOf[r] = <<>>

\* pool.map (and the plain call of ecs_deploy.py) passes a worker's
\* exception on to the script
MapRaises(W) == \E r \in W : result[r] = "raised"

\* a variant that gives up only when no deployment succeeded
AllFailed(W) == \A r \in W : result[r] # "True"

\* `if any(not result for result in results)`, `if not ecs_deploy_v2(...)`
AnyFailed(W) == \E r \in W : result[r] # "True"

\* ecr_tag_to_build returns True or False, or raises (ecr_tag raises)
TagOutcomes == {"True", "False", "raised"}

\* `if not ecr_tag_to_build(...): sys.exit(1)` and `sys.exit(0)`; an
\* uncaught exception ends the process with a traceback and status 1
TagExit(t) == IF t = "True" THEN "0" ELSE IF t = "False" THEN "1" ELSE "raised"

\* the script after its deployments have ended
ScriptEnd ==
    /\ script \in DeployScripts
    /\ exitStatus = "none"
    /\ \A r \in Workers : pc[r] = "done"
    /\ IF MapRaises(Workers)
       THEN /\ exitStatus' = "raised"
            /\ UNCHANGED tagged
       ELSE IF AnyFailed(Workers)
       THEN /\ exitStatus' = "1"
            /\ UNCHANGED tagged
       ELSE \E t \in TagOutcomes :
               /\ tagged' = t
               /\ exitStatus' = TagExit(t)
    /\ UNCHANGED <<script, cancel>>
    /\ UNCHANGED <<ecsVars, imgVars, routeVars, waitVars, tripVars>>

\* the steps of ecs_deploy_v2
DeployStep(r) ==
    \/ Snapshot(r)
    \/ GetTaskDef(r)
    \/ SetImage(r)
    \/ Register(r)
    \/ Deploy(r)
    \/ WaitStable(r)
    \/ RollbackDeploy(r)
    \/ RollbackWaitStable(r)
    \/ Deregister(r)

\* the steps of color_flip.py
FlipStep(p) ==
    \/ FlipStart(p)
    \/ FlipRead(p)
    \/ R53Zone(p)
    \/ R53Check(p)
    \/ R53Upsert(p)
    \/ KvsDescribe(p)
    \/ KvsPut(p)

\* the steps of color_check.py
CheckStep(p) ==
    \/ CheckStart(p)
    \/ GicRead(p)
    \/ ColorCheck(p)

ScriptsNext ==
    \/ script = "color_flip" /\ \E p \in Procs : FlipStep(p)
    \/ script = "color_check" /\ \E p \in Procs : CheckStep(p)
    \/ script \in DeployScripts /\ \E r \in Workers : DeployStep(r)
    \/ ScriptEnd

InitScripts == ScriptsInit

SpecScripts == InitScripts /\ [][ScriptsNext]_vars

\* a status other than 0
NonZero == {"1", "raised"}

\* C16: a script exits 0 only if every core operation succeeded: color_flip
\* only after set_active_color returned True, the deploy scripts only after
\* every ecs_deploy_v2 returned True and ecr_tag_to_build returned True; a
\* failed or raising core operation ends the script with a non-zero status
C16_ExitZeroOnlyOnSuccess ==
    /\ script = "color_flip" =>
          \A p \in Procs :
             /\ ret[p] = RetExit(0) => wrote[p].res = "ok"
             /\ (rpc[p] = "done" /\ wrote[p].res # "ok")
                   => ret[p] \in {RetExit(1), RetRaised}
    /\ script \in DeployScripts =>
          /\ exitStatus = "0"
                => (\A r \in Workers : result[r] = "True") /\ tagged = "True"
          /\ (/\ exitStatus # "none"
              /\ \/ \E r \in Workers : result[r] # "True"
                 \/ tagged # "True")
                => exitStatus \in NonZero

\* color_check of p has ended
Checked(p) == call[p].op = "color_check" /\ rpc[p] = "exited"

Cancelled(p) == \E outcome \in CancelOutcomes : <<p, outcome>> \in cancel

\* C17: color_check exits 0 without a cancellation request only if COLOR is
\* the inactive color of the record it read; if COLOR is the live color of
\* that record it has called cancel_workflow; and when that request failed
\* (returned False or raised) the exit status is not 0
C17_ColorCheckGate ==
    script = "color_check" =>
       \A p \in Procs :
          Checked(p) =>
             /\ (ret[p] = RetExit(0) /\ ~Cancelled(p))
                   => /\ seen[p].made
                      /\ WeightSeen(p) >= 0
                      /\ call[p].color = InactiveOf(WeightSeen(p))
             /\ (seen[p].made /\ WeightSeen(p) >= 0
                  /\ call[p].color = ActiveOf(WeightSeen(p)))
                   => Cancelled(p)
             /\ (<<p, "False">> \in cancel \/ <<p, "raised">> \in cancel)
                   => ret[p] \in {RetExit(1), RetRaised}

\* COLOR was live, the cancellation was requested and failed, exit 1
C17_Witness ==
    /\ script = "color_check"
    /\ \E p \in Procs :
          /\ Checked(p)
          /\ seen[p].made
          /\ call[p].color = ActiveOf(WeightSeen(p))
          /\ <<p, "False">> \in cancel
          /\ ret[p] = RetExit(1)

\* ecs_deploy_many ended after one worker deployed and another raised
\* because its rollback did not become stable
C16_Witness ==
    /\ script = "ecs_deploy_many"
    /\ exitStatus = "raised"
    /\ \E r, q \in Runs :
          /\ result[r] = "raised" /\ rbWait[r] = "failed"
          /\ result[q] = "True"

\* the workers deploy to distinct services
DistinctServices == \A r, q \in Workers : r # q => svcOf[r] # svcOf[q]

\* what a run of ecs_deploy_v2 that is alone on its service sees and leaves:
\* the snapshot is the revision the service had before the script, the
\* registered revision is the run's own, the service runs one of the two
\* and the new one only from the run's deploy step on, and the result
\* follows from the run's own waits
AloneView(r) ==
    /\ curArn[r] \in {0, InitialArn(svcOf[r])}
    /\ curDef[r] \in {<<>>, InitialTaskDef}
    /\ newArn[r] # 0 =>
          /\ newArn[r] \in DOMAIN taskDefs
          /\ taskDefs[newArn[r]] = newDef[r]
          /\ \A q \in Runs \ {r} : newArn[q] # newArn[r]
    /\ svcTaskDef[svcOf[r]] \in {InitialArn(svcOf[r]), newArn[r]}
    /\ StepRank(pc[r]) <= StepRank("deploy") =>
          svcTaskDef[svcOf[r]] = InitialArn(svcOf[r])
    /\ Finished(r) =>
          /\ result[r] = "True" <=> firstWait[r] = "ok"
          /\ firstWait[r] = "none" => svcTaskDef[svcOf[r]] = InitialArn(svcOf[r])
          /\ (firstWait[r] = "failed" /\ rbWait[r] = "failed") => result[r] = "raised"

\* C21: the parallel ecs_deploy_v2 runs of ecs_deploy_many on distinct
\* services do not touch each other: in every reachable state each run
\* relates to its service as a run that is alone does, and a step of one
\* run changes neither another service nor another run's locals
C21_WorkersIndependent ==
    /\ []((script \in DeployScripts /\ DistinctServices)
             => \A r \in Workers : AloneView(r))
    /\ [][(script = "ecs_deploy_many" /\ DistinctServices) =>
             \A r, q \in Runs :
                (r # q /\ StepOf(r)) =>
                   /\ svcTaskDef'[svcOf[q]] = svcTaskDef[svcOf[q]]
                   /\ curArn'[q] = curArn[q] /\ curDef'[q] = curDef[q]
                   /\ newArn'[q] = newArn[q] /\ newDef'[q] = newDef[q]
                   /\ result'[q] = result[q]
                   /\ firstWait'[q] = firstWait[q] /\ rbWait'[q] = rbWait[q]
                   /\ (newArn[q] # 0 => taskDefs'[newArn[q]] = taskDefs[newArn[q]])]_vars

\* both workers have ended on distinct services, one with its revision
\* deployed and True, the other rolled back to its snapshot
C21_Witness ==
    /\ script = "ecs_deploy_many"
    /\ DistinctServices
    /\ \E r, q \in Runs :
          /\ Finished(r) /\ Finished(q)
          /\ result[r] = "True" /\ svcTaskDef[svcOf[r]] = newArn[r]
          /\ firstWait[q] = "failed" /\ rbWait[q] = "ok"
          /\ svcTaskDef[svcOf[q]] = curArn[q]

(***************************************************************************)
(* Properties of the routing subsystem.                                    *)
(***************************************************************************)
\* get_inactive_color of p has ended after reading an int weight
GicEnded(p) ==
    /\ call[p].op = "get_inactive_color"
    /\ rpc[p] = "done"
    /\ seen[p].made

\* C2: a put_key whose IfMatch ETag is no longer the ETag of the store is
\* rejected: cloudfront_update_kvs_key returns False and the stored value
\* (and so what a later read returns) is the value before the call.
C2_StalePutRejected ==
    [][\A p \in Procs :
         (KvsPut(p) /\ etagHeld[p] # kvsEtag)
            => /\ wrote'[p].res = "failed"
               /\ kvsValue' = kvsValue
               /\ kvsEtag' = kvsEtag]_vars

\* a put_key was made with an ETag that another writer's put had made stale
\* after the describe call; the update returned False and the store does not
\* hold the text of this update
C2_Witness ==
    \E p \in Procs :
        /\ wrote[p].token # 0
        /\ wrote[p].token # wrote[p].current
        /\ wrote[p].res = "failed"
        /\ kvsValue # wrote[p].txt

\* C3: on the KVS backend the token color_flip supplies to put_key is the
\* ETag that was current when it read the record, so a put that follows a
\* change of the key made after that read fails.
C3_FlipIsCompareAndSwap ==
    \A p \in Procs :
        (call[p].op = "color_flip" /\ wrote[p].token # 0)
           => /\ wrote[p].token = seen[p].etag
              /\ (wrote[p].current # seen[p].etag => wrote[p].res = "failed")

\* the record of the store that set_active_color of p wrote to, as the
\* program reads it with no cached entry
StoreRead(p) ==
    IF Backend(call[p].rec, call[p].arn, call[p].key) = "dns"
    THEN get_routing_info(NoCache, now, [ok |-> dnsExists, txt |-> dnsTxt])
    ELSE ReadOut(TRUE, NoCache, now, [ok |-> TRUE, txt |-> kvsValue])

\* that record has the full-routing weight of the flipped color and the
\* version of the flipping build under that color
FlipReadsBack(p) ==
    \E r \in {StoreRead(p)} :
        /\ ~r.raised
        /\ DictHas(r.dict, Weight)
        /\ DictGet(r.dict, Weight) = IntVal(FULL_ROUTING(call[p].color))
        /\ DictHas(r.dict, call[p].color)
        /\ DictGet(r.dict, call[p].color) = StrVal(get_version(p))

\* C4: right after set_active_color returned True to color_flip for color c
\* and version v, a read of the store without the cache gives a record with
\* weight FULL_ROUTING[c] and record[c] = v.
C4_FlipReadsBack ==
    [][\A p \in Procs :
         (call[p].op = "color_flip" /\ wrote[p].res # "ok" /\ wrote'[p].res = "ok")
            => FlipReadsBack(p)']_vars

\* the forced write of get_inactive_color was made and failed
ForcedWriteFailed(p) ==
    Forces(call[p].force, WeightSeen(p)) /\ wrote[p].res = "failed"

\* C5 as stated: get_inactive_color returns green for every weight from 0 to
\* 49 (blue active) and blue for every weight from 50 to 100 (green active).
C5_AlwaysReturnsInactive ==
    \A p \in Procs :
        GicEnded(p) =>
           /\ WeightSeen(p) \in 0..49
                => active_color[p] = Blue /\ ret[p] = RetColor(Green)
           /\ WeightSeen(p) \in 50..100
                => active_color[p] = Green /\ ret[p] = RetColor(Blue)

\* C5, amended: for every weight from 0 to 49 the active color is blue and
\* the inactive color green, for every weight from 50 to 100 green and blue;
\* the inactive color is what the call returns, except that it returns None
\* when force_routing made it write and the write failed.
C5_InactiveColorByWeight ==
    \A p \in Procs :
        GicEnded(p) =>
           /\ WeightSeen(p) \in 0..49
                => /\ active_color[p] = Blue
                   /\ inactive_color[p] = Green
                   /\ ret[p] = RetColor(IF ForcedWriteFailed(p) THEN None ELSE Green)
           /\ WeightSeen(p) \in 50..100
                => /\ active_color[p] = Green
                   /\ inactive_color[p] = Blue
                   /\ ret[p] = RetColor(IF ForcedWriteFailed(p) THEN None ELSE Blue)

\* a call that read the weight 50 and returned blue
C5_Witness ==
    \E p \in Procs :
        /\ GicEnded(p)
        /\ WeightSeen(p) = Threshold
        /\ ret[p] = RetColor(Blue)

\* the values of a dict that get_routing_info returned from its cache
FromCache(c) == RetDict(InfoDict(c.weight, c.green, c.blue))

OtherColor(c) == IF c = Blue THEN Green ELSE Blue

\* C10: get_inactive_color with force_routing and a weight w from 1 to 99
\* calls set_active_color before it returns, with a record whose weight is 0
\* if w < 50 and 100 otherwise, whose active color has the version of the
\* caller's build and whose other color is as read; when the write succeeds
\* the inactive color is returned, when it fails None is.
C10_ForcedWrite ==
    \A p \in Procs :
        (GicEnded(p) /\ call[p].force /\ WeightSeen(p) \in 1..99) =>
           \E a \in {IF WeightSeen(p) < 50 THEN Blue ELSE Green} :
              /\ wrote[p].res \in {"ok", "failed"}
              /\ DictGet(info[p], Weight) = IntVal(IF a = Blue THEN 0 ELSE 100)
              /\ DictGet(info[p], a) = StrVal(get_version(p))
              /\ DictHas(seen[p].dict, OtherColor(a))
                   => DictGet(info[p], OtherColor(a)) = DictGet(seen[p].dict, OtherColor(a))
              /\ wrote[p].res = "ok"
                   => wrote[p].txt = PyStr(info[p]) /\ ret[p] = RetColor(OtherColor(a))
              /\ wrote[p].res = "failed" => ret[p] = RetColor(None)

\* one forced call wrote the record and returned the inactive color, the
\* other failed to write and returned None
C10_Witness ==
    \E p, q \in Procs :
        /\ GicEnded(p) /\ call[p].force /\ WeightSeen(p) \in 1..99
        /\ wrote[p].res = "ok"
        /\ ret[p].color # None
        /\ GicEnded(q) /\ call[q].force /\ WeightSeen(q) \in 1..99
        /\ wrote[q].res = "failed"
        /\ ret[q] = RetColor(None)

\* C11: after set_active_color wrote the record of a process successfully,
\* the next get_routing_info of that process for the record calls the
\* resolver, however soon it comes.
C11_WriteInvalidatesCache ==
    [][\A p \in Procs :
         (RoutingInfoAfter(p) /\ wrote[p].res = "ok"
          /\ ForcedBackend(call[p].rec, call[p].arn, call[p].key) = "dns")
            => lastCall'[p].looked]_vars

\* process p runs color_flip against the DNS record
DnsFlip(p) ==
    /\ call[p].op = "color_flip"
    /\ Backend(call[p].rec, call[p].arn, call[p].key) = "dns"

\* C12: on the DNS backend a write is never refused on account of another
\* writer: whatever the other process has done since this one read, the
\* existence check can pass and the UPSERT can succeed, and an UPSERT that
\* succeeds leaves in the store exactly the record it sent (the last one
\* wins).
C12_DnsLastWriteWins ==
    /\ [](\A p \in Procs :
            /\ (DnsFlip(p) /\ rpc[p] = "r53_check" /\ dnsExists)
                 => ENABLED (R53Check(p) /\ rpc'[p] = "r53_upsert")
            /\ (DnsFlip(p) /\ rpc[p] = "r53_upsert")
                 => ENABLED (R53Upsert(p) /\ wrote'[p].res = "ok"))
    /\ [][\A p \in Procs :
            (R53Upsert(p) /\ wrote'[p].res = "ok")
               => dnsTxt' = PyStr(info[p]) /\ dnsTxt' = wrote'[p].txt]_vars

\* two flips of different colors read the same record, then both wrote it
\* with success: the store holds the record of one of them, which lacks
\* what the other wrote
C12_Witness ==
    \E p, q \in Procs :
        /\ p # q
        /\ DnsFlip(p) /\ DnsFlip(q)
        /\ call[p].color # call[q].color
        /\ seen[p].made /\ seen[q].made
        /\ seen[p].dict = seen[q].dict
        /\ seen[p].dict # EmptyDict
        /\ wrote[p].res = "ok" /\ wrote[q].res = "ok"
        /\ dnsTxt = wrote[q].txt
        /\ dnsTxt # wrote[p].txt

\* C13: a DNS write to a record that is not in the hosted zone returns
\* False without an UPSERT, and so does a write whose hosted zone is not
\* found: an UPSERT is only issued for a record that exists, and no step
\* brings a record into existence.
C13_WriteNeverCreates ==
    [][/\ \A p \in Procs :
            /\ (R53Zone(p) /\ rpc'[p] # "r53_check")
                 => wrote'[p].res = "failed" /\ rpc'[p] = "done"
            /\ (R53Check(p) /\ ~dnsExists)
                 => wrote'[p].res = "failed" /\ rpc'[p] = "done"
            /\ R53Upsert(p) => dnsExists
       /\ ~dnsExists => (~dnsExists' /\ dnsTxt' = dnsTxt)]_vars

\* set_active_color went to the DNS backend for a record that does not
\* exist and returned False; there is still no record
C13_Witness ==
    \E p \in Procs :
        /\ ~dnsExists
        /\ call[p].rec
        /\ rpc[p] = "done"
        /\ wrote[p].res = "failed"
        /\ wrote[p].txt # <<>>

\* C14: a get_routing_info call whose lookup fails or whose payload does
\* not parse (it called the resolver and did not write the cache) returns
\* the empty dict without raising and leaves the cache entry as it was.
C14_FailureReturnsEmpty ==
    [][\A p \in Procs :
         (CallRoutingInfo(p) /\ lastCall'[p].looked /\ ~lastCall'[p].fetched)
            => /\ ret'[p] = RetDict(EmptyDict)
               /\ cache'[p] = cache[p]]_vars

\* get_inactive_color of p has ended and its read gave no weight (the
\* lookup failed, the payload did not parse or held no int weight) or a
\* negative one
GicUnresolvable(p) ==
    /\ call[p].op = "get_inactive_color"
    /\ rpc[p] = "done"
    /\ IF seen[p].made THEN WeightSeen(p) < 0 ELSE TRUE

\* C15: get_inactive_color whose read gives a negative, malformed or absent
\* weight returns None, raises nothing and writes nothing.
C15_UnknownWeightReturnsNone ==
    \A p \in Procs :
        GicUnresolvable(p) => ret[p] = RetColor(None) /\ wrote[p].res = "none"

\* color_flip of p has ended with set_active_color returning True, after
\* reading a current record {weight, green, blue}
FlipSucceeded(p) ==
    /\ call[p].op = "color_flip"
    /\ rpc[p] = "done"
    /\ wrote[p].res = "ok"
    /\ seen[p].made
    /\ DictHas(seen[p].dict, Blue) /\ DictHas(seen[p].dict, Green)
    /\ ~DictHas(seen[p].dict, Version)

\* C24: when one run flips blue to its version and another flips green to
\* its version on the same record and both report success, the stored
\* record holds both versions.
C24_BothFlipsKept ==
    (/\ FlipSucceeded("p1") /\ FlipSucceeded("p2")
     /\ call["p1"].color = Blue /\ call["p2"].color = Green
     /\ call["p1"].rec = call["p2"].rec
     /\ call["p1"].arn = call["p2"].arn
     /\ call["p1"].key = call["p2"].key
     /\ call["p1"].rec # call["p1"].arn)
    => \E r \in {StoreRead("p1")} :
          /\ ~r.raised
          /\ DictHas(r.dict, Blue) /\ DictGet(r.dict, Blue) = StrVal(get_version("p1"))
          /\ DictHas(r.dict, Green) /\ DictGet(r.dict, Green) = StrVal(get_version("p2"))

\* color_flip.py lines 45-50: the read goes to the KVS whenever KVS_ARN is
\* set, to DNS otherwise
FlipReadBackend(arn) == IF arn THEN "kvs" ELSE "dns"

\* C25: a color_flip that passed the validation and read its record writes
\* to the backend it read from.
C25_FlipReadsWhereItWrites ==
    \A p \in Procs :
        (call[p].op = "color_flip" /\ seen[p].made /\ rpc[p] # "flip_read")
           => FlipReadBackend(call[p].arn)
                 = Backend(call[p].rec, call[p].arn, call[p].key)

\* the color the write of p makes live: COLOR for color_flip, the active
\* color for the forced write of get_inactive_color
MadeLive(p) == IF call[p].op = "color_flip" THEN call[p].color ELSE active_color[p]

\* the backend the write of p went to
WrittenBackend(p) ==
    IF call[p].op = "color_flip"
    THEN Backend(call[p].rec, call[p].arn, call[p].key)
    ELSE ForcedBackend(call[p].rec, call[p].arn, call[p].key)

\* a read of that backend by the program, with no cached entry
WrittenRead(p) ==
    IF WrittenBackend(p) = "dns"
    THEN get_routing_info(NoCache, now, [ok |-> dnsExists, txt |-> dnsTxt])
    ELSE ReadOut(TRUE, NoCache, now, [ok |-> TRUE, txt |-> kvsValue])

\* the stored text holds the full-routing weight of the color made live,
\* that weight resolves to this color as active and the other as inactive,
\* and a reader that can read the record sees the same
LiveAfterWrite(p) ==
    /\ \E j \in {JsonLoads(ReplaceQuotes(wrote[p].txt))} :
          /\ j.ok
          /\ DictHas(j.d, Weight)
          /\ DictGet(j.d, Weight) = IntVal(FULL_ROUTING(MadeLive(p)))
    /\ ActiveOf(FULL_ROUTING(MadeLive(p))) = MadeLive(p)
    /\ InactiveOf(FULL_ROUTING(MadeLive(p))) = OtherColor(MadeLive(p))
    /\ \E r \in {WrittenRead(p)} :
          (~r.raised /\ DictHas(r.dict, Weight))
             => /\ DictGet(r.dict, Weight).int
                /\ DictGet(r.dict, Weight).n >= 0
                /\ InactiveOf(DictGet(r.dict, Weight).n) # MadeLive(p)

Stores == <<dnsExists, dnsTxt, kvsValue, kvsEtag>>

\* C29: get_inactive_color without force_routing, or with a weight read of
\* exactly 0 or 100, writes nothing: none of its steps changes a store and
\* it ends without having called set_active_color.
C29_NoWriteUnlessForced ==
    /\ [][\A p \in Procs :
            (/\ call[p].op = "get_inactive_color"
             /\ rpc'[p] # rpc[p]
             /\ (~call[p].force \/ (seen'[p].made /\ WeightSeen(p)' \in {0, 100})))
            => Stores' = Stores]_vars
    /\ [](\A p \in Procs :
            (/\ GicEnded(p)
             /\ (~call[p].force \/ WeightSeen(p) \in {0, 100}))
            => wrote[p].res = "none")

\* a call with force_routing read the weight 0 or 100 and another call
\* ran without force_routing; both returned a color
C29_Witness ==
    \E p, q \in Procs :
        /\ GicEnded(p) /\ call[p].force /\ WeightSeen(p) \in {0, 100}
        /\ ret[p].kind = "returned" /\ ret[p].color # None
        /\ GicEnded(q) /\ ~call[q].force
        /\ ret[q].kind = "returned" /\ ret[q].color # None

====
